---- MODULE Spec2Model ----
(***************************************************************************)
(* Model of the citation deduplicator of biblib (src/src/dedupe.rs).       *)
(*                                                                         *)
(* Strings are sequences of one-character strings.  An Option<T> value is  *)
(* the empty tuple (None) or a one-element tuple (Some(x)).  A citation    *)
(* reference (&Citation) is the 1-based position of the citation in the    *)
(* `citations` slice handed to find_duplicates_with_sources; two           *)
(* references are pointer-equal exactly when the positions are equal.      *)
(***************************************************************************)
EXTENDS Integers, Sequences, FiniteSets, TLC

VARIABLES citations, sources, config, pc, year_groups, pending,
          duplicate_groups, failed, result, requested

vars == <<citations, sources, config, pc, year_groups, pending,
          duplicate_groups, failed, result, requested>>

(***************************************************************************)
(* Option values.                                                          *)
(***************************************************************************)
None == <<>>

Some(x) == <<x>>

IsSome(o) == o # <<>>

Unwrap(o) == o[1]

(***************************************************************************)
(* Generic sequence helpers.                                               *)
(***************************************************************************)
Min(a, b) == IF a <= b THEN a ELSE b

Max(a, b) == IF a >= b THEN a ELSE b

\* The sequence s from its last element to its first.
Reversed(s) == [k \in 1..Len(s) |-> s[Len(s) + 1 - k]]

RECURSIVE SortedSeq(_)
\* The elements of a finite set of integers in ascending order.
SortedSeq(S) ==
    IF S = {} THEN <<>>
    ELSE LET lo == CHOOSE x \in S : \A y \in S : x <= y
         IN <<lo>> \o SortedSeq(S \ {lo})

Range(s) == { s[k] : k \in DOMAIN s }

\* The least element of a set of integers.
Least(S) == CHOOSE x \in S : \A y \in S : x <= y

RECURSIVE FlattenRange(_, _, _)
\* The concatenation of ss[lo], ..., ss[hi].
FlattenRange(ss, lo, hi) ==
    IF lo > hi THEN <<>>
    ELSE IF lo = hi THEN ss[lo]
    ELSE FlattenRange(ss, lo, (lo + hi) \div 2) \o FlattenRange(ss, ((lo + hi) \div 2) + 1, hi)

FlattenSeq(ss) == FlattenRange(ss, 1, Len(ss))

(***************************************************************************)
(* Characters.  The characters U+0020 to U+007E, but for the backslash    *)
(* and the grave accent, are the one-character strings; any other one is   *)
(* "U+" followed by its code point in hexadecimal, four digits at least:   *)
(* "U+00E9", "U+0009", "U+005C", "U+1F600".  The character classes and     *)
(* the lowercase mapping are those of Unicode 17.0.0.                      *)
(***************************************************************************)
Printable ==
    << " ", "!", "\"", "#", "$", "%", "&", "'", "(", ")", "*", "+", ",", "-", ".", "/",
       "0", "1", "2", "3", "4", "5", "6", "7", "8", "9", ":", ";", "<", "=", ">", "?",
       "@", "A", "B", "C", "D", "E", "F", "G", "H", "I", "J", "K", "L", "M", "N", "O",
       "P", "Q", "R", "S", "T", "U", "V", "W", "X", "Y", "Z", "[", "U+005C", "]", "^", "_",
       "U+0060", "a", "b", "c", "d", "e", "f", "g", "h", "i", "j", "k", "l", "m", "n", "o",
       "p", "q", "r", "s", "t", "u", "v", "w", "x", "y", "z", "{", "|", "}", "~" >>

Uppers == <<"A", "B", "C", "D", "E", "F", "G", "H", "I", "J", "K", "L", "M",
            "N", "O", "P", "Q", "R", "S", "T", "U", "V", "W", "X", "Y", "Z">>

Lowers == <<"a", "b", "c", "d", "e", "f", "g", "h", "i", "j", "k", "l", "m",
            "n", "o", "p", "q", "r", "s", "t", "u", "v", "w", "x", "y", "z">>

Digits == {"0", "1", "2", "3", "4", "5", "6", "7", "8", "9"}

HexDigits == <<"0", "1", "2", "3", "4", "5", "6", "7", "8", "9",
               "A", "B", "C", "D", "E", "F">>

LowerHexDigits == <<"0", "1", "2", "3", "4", "5", "6", "7", "8", "9",
                    "a", "b", "c", "d", "e", "f">>

\* [0-9A-Fa-f]
is_hex(c) == \E k \in 1..16 : HexDigits[k] = c \/ LowerHexDigits[k] = c

hex_value(c) == (CHOOSE k \in 1..16 : HexDigits[k] = c \/ LowerHexDigits[k] = c) - 1

RECURSIVE hex_number(_, _, _)
hex_number(c, k, acc) ==
    IF k > Len(c) THEN acc ELSE hex_number(c, k + 1, acc * 16 + hex_value(SubSeq(c, k, k)))

\* The code point of a character.
code_point(c) ==
    IF Len(c) = 1 THEN 31 + (CHOOSE k \in 1..Len(Printable) : Printable[k] = c)
    ELSE hex_number(c, 3, 0)

RECURSIVE hex_text(_, _)
hex_text(n, width) ==
    IF n = 0 /\ width <= 0 THEN ""
    ELSE hex_text(n \div 16, width - 1) \o HexDigits[(n % 16) + 1]

\* The character of a code point.
char_of(n) == IF n >= 32 /\ n <= 126 THEN Printable[n - 31] ELSE "U+" \o hex_text(n, 4)

in_ranges(n, ranges) == \E k \in 1..Len(ranges) : ranges[k][1] <= n /\ n <= ranges[k][2]

\* The code points above U+007F with the property Alphabetic or of a
\* general category Nd, Nl or No, as ranges <<first, last>>.
Alphabetic_or_N ==
    << <<170, 170>>, <<178, 179>>, <<181, 181>>, <<185, 186>>, <<188, 190>>, <<192, 214>>,
       <<216, 246>>, <<248, 705>>, <<710, 721>>, <<736, 740>>, <<748, 748>>, <<750, 750>>,
       <<837, 837>>, <<867, 884>>, <<886, 887>>, <<890, 893>>, <<895, 895>>, <<902, 902>>,
       <<904, 906>>, <<908, 908>>, <<910, 929>>, <<931, 1013>>, <<1015, 1153>>, <<1162, 1327>>,
       <<1329, 1366>>, <<1369, 1369>>, <<1376, 1416>>, <<1456, 1469>>, <<1471, 1471>>, <<1473, 1474>>,
       <<1476, 1477>>, <<1479, 1479>>, <<1488, 1514>>, <<1519, 1522>>, <<1552, 1562>>, <<1568, 1623>>,
       <<1625, 1641>>, <<1646, 1747>>, <<1749, 1756>>, <<1761, 1768>>, <<1773, 1788>>, <<1791, 1791>>,
       <<1808, 1855>>, <<1869, 1969>>, <<1984, 2026>>, <<2036, 2037>>, <<2042, 2042>>, <<2048, 2071>>,
       <<2074, 2092>>, <<2112, 2136>>, <<2144, 2154>>, <<2160, 2183>>, <<2185, 2191>>, <<2199, 2199>>,
       <<2208, 2249>>, <<2260, 2271>>, <<2275, 2281>>, <<2288, 2363>>, <<2365, 2380>>, <<2382, 2384>>,
       <<2389, 2403>>, <<2406, 2415>>, <<2417, 2435>>, <<2437, 2444>>, <<2447, 2448>>, <<2451, 2472>>,
       <<2474, 2480>>, <<2482, 2482>>, <<2486, 2489>>, <<2493, 2500>>, <<2503, 2504>>, <<2507, 2508>>,
       <<2510, 2510>>, <<2519, 2519>>, <<2524, 2525>>, <<2527, 2531>>, <<2534, 2545>>, <<2548, 2553>>,
       <<2556, 2556>>, <<2561, 2563>>, <<2565, 2570>>, <<2575, 2576>>, <<2579, 2600>>, <<2602, 2608>>,
       <<2610, 2611>>, <<2613, 2614>>, <<2616, 2617>>, <<2622, 2626>>, <<2631, 2632>>, <<2635, 2636>>,
       <<2641, 2641>>, <<2649, 2652>>, <<2654, 2654>>, <<2662, 2677>>, <<2689, 2691>>, <<2693, 2701>>,
       <<2703, 2705>>, <<2707, 2728>>, <<2730, 2736>>, <<2738, 2739>>, <<2741, 2745>>, <<2749, 2757>>,
       <<2759, 2761>>, <<2763, 2764>>, <<2768, 2768>>, <<2784, 2787>>, <<2790, 2799>>, <<2809, 2812>>,
       <<2817, 2819>>, <<2821, 2828>>, <<2831, 2832>>, <<2835, 2856>>, <<2858, 2864>>, <<2866, 2867>>,
       <<2869, 2873>>, <<2877, 2884>>, <<2887, 2888>>, <<2891, 2892>>, <<2902, 2903>>, <<2908, 2909>>,
       <<2911, 2915>>, <<2918, 2927>>, <<2929, 2935>>, <<2946, 2947>>, <<2949, 2954>>, <<2958, 2960>>,
       <<2962, 2965>>, <<2969, 2970>>, <<2972, 2972>>, <<2974, 2975>>, <<2979, 2980>>, <<2984, 2986>>,
       <<2990, 3001>>, <<3006, 3010>>, <<3014, 3016>>, <<3018, 3020>>, <<3024, 3024>>, <<3031, 3031>>,
       <<3046, 3058>>, <<3072, 3084>>, <<3086, 3088>>, <<3090, 3112>>, <<3114, 3129>>, <<3133, 3140>>,
       <<3142, 3144>>, <<3146, 3148>>, <<3157, 3158>>, <<3160, 3162>>, <<3164, 3165>>, <<3168, 3171>>,
       <<3174, 3183>>, <<3192, 3198>>, <<3200, 3203>>, <<3205, 3212>>, <<3214, 3216>>, <<3218, 3240>>,
       <<3242, 3251>>, <<3253, 3257>>, <<3261, 3268>>, <<3270, 3272>>, <<3274, 3276>>, <<3285, 3286>>,
       <<3292, 3294>>, <<3296, 3299>>, <<3302, 3311>>, <<3313, 3315>>, <<3328, 3340>>, <<3342, 3344>>,
       <<3346, 3386>>, <<3389, 3396>>, <<3398, 3400>>, <<3402, 3404>>, <<3406, 3406>>, <<3412, 3427>>,
       <<3430, 3448>>, <<3450, 3455>>, <<3457, 3459>>, <<3461, 3478>>, <<3482, 3505>>, <<3507, 3515>>,
       <<3517, 3517>>, <<3520, 3526>>, <<3535, 3540>>, <<3542, 3542>>, <<3544, 3551>>, <<3558, 3567>>,
       <<3570, 3571>>, <<3585, 3642>>, <<3648, 3654>>, <<3661, 3661>>, <<3664, 3673>>, <<3713, 3714>>,
       <<3716, 3716>>, <<3718, 3722>>, <<3724, 3747>>, <<3749, 3749>>, <<3751, 3769>>, <<3771, 3773>>,
       <<3776, 3780>>, <<3782, 3782>>, <<3789, 3789>>, <<3792, 3801>>, <<3804, 3807>>, <<3840, 3840>>,
       <<3872, 3891>>, <<3904, 3911>>, <<3913, 3948>>, <<3953, 3971>>, <<3976, 3991>>, <<3993, 4028>>,
       <<4096, 4150>>, <<4152, 4152>>, <<4155, 4169>>, <<4176, 4253>>, <<4256, 4293>>, <<4295, 4295>>,
       <<4301, 4301>>, <<4304, 4346>>, <<4348, 4680>>, <<4682, 4685>>, <<4688, 4694>>, <<4696, 4696>>,
       <<4698, 4701>>, <<4704, 4744>>, <<4746, 4749>>, <<4752, 4784>>, <<4786, 4789>>, <<4792, 4798>>,
       <<4800, 4800>>, <<4802, 4805>>, <<4808, 4822>>, <<4824, 4880>>, <<4882, 4885>>, <<4888, 4954>>,
       <<4969, 4988>>, <<4992, 5007>>, <<5024, 5109>>, <<5112, 5117>>, <<5121, 5740>>, <<5743, 5759>>,
       <<5761, 5786>>, <<5792, 5866>>, <<5870, 5880>>, <<5888, 5907>>, <<5919, 5939>>, <<5952, 5971>>,
       <<5984, 5996>>, <<5998, 6000>>, <<6002, 6003>>, <<6016, 6067>>, <<6070, 6088>>, <<6103, 6103>>,
       <<6108, 6108>>, <<6112, 6121>>, <<6128, 6137>>, <<6160, 6169>>, <<6176, 6264>>, <<6272, 6314>>,
       <<6320, 6389>>, <<6400, 6430>>, <<6432, 6443>>, <<6448, 6456>>, <<6470, 6509>>, <<6512, 6516>>,
       <<6528, 6571>>, <<6576, 6601>>, <<6608, 6618>>, <<6656, 6683>>, <<6688, 6750>>, <<6753, 6772>>,
       <<6784, 6793>>, <<6800, 6809>>, <<6823, 6823>>, <<6847, 6848>>, <<6860, 6862>>, <<6912, 6963>>,
       <<6965, 6979>>, <<6981, 6988>>, <<6992, 7001>>, <<7040, 7081>>, <<7084, 7141>>, <<7143, 7153>>,
       <<7168, 7222>>, <<7232, 7241>>, <<7245, 7293>>, <<7296, 7306>>, <<7312, 7354>>, <<7357, 7359>>,
       <<7401, 7404>>, <<7406, 7411>>, <<7413, 7414>>, <<7418, 7418>>, <<7424, 7615>>, <<7635, 7668>>,
       <<7680, 7957>>, <<7960, 7965>>, <<7968, 8005>>, <<8008, 8013>>, <<8016, 8023>>, <<8025, 8025>>,
       <<8027, 8027>>, <<8029, 8029>>, <<8031, 8061>>, <<8064, 8116>>, <<8118, 8124>>, <<8126, 8126>>,
       <<8130, 8132>>, <<8134, 8140>>, <<8144, 8147>>, <<8150, 8155>>, <<8160, 8172>>, <<8178, 8180>>,
       <<8182, 8188>>, <<8304, 8305>>, <<8308, 8313>>, <<8319, 8329>>, <<8336, 8348>>, <<8450, 8450>>,
       <<8455, 8455>>, <<8458, 8467>>, <<8469, 8469>>, <<8473, 8477>>, <<8484, 8484>>, <<8486, 8486>>,
       <<8488, 8488>>, <<8490, 8493>>, <<8495, 8505>>, <<8508, 8511>>, <<8517, 8521>>, <<8526, 8526>>,
       <<8528, 8585>>, <<9312, 9371>>, <<9398, 9471>>, <<10102, 10131>>, <<11264, 11492>>, <<11499, 11502>>,
       <<11506, 11507>>, <<11517, 11517>>, <<11520, 11557>>, <<11559, 11559>>, <<11565, 11565>>, <<11568, 11623>>,
       <<11631, 11631>>, <<11648, 11670>>, <<11680, 11686>>, <<11688, 11694>>, <<11696, 11702>>, <<11704, 11710>>,
       <<11712, 11718>>, <<11720, 11726>>, <<11728, 11734>>, <<11736, 11742>>, <<11744, 11775>>, <<11823, 11823>>,
       <<12293, 12295>>, <<12321, 12329>>, <<12337, 12341>>, <<12344, 12348>>, <<12353, 12438>>, <<12445, 12447>>,
       <<12449, 12538>>, <<12540, 12543>>, <<12549, 12591>>, <<12593, 12686>>, <<12690, 12693>>, <<12704, 12735>>,
       <<12784, 12799>>, <<12832, 12841>>, <<12872, 12879>>, <<12881, 12895>>, <<12928, 12937>>, <<12977, 12991>>,
       <<13312, 19903>>, <<19968, 42124>>, <<42192, 42237>>, <<42240, 42508>>, <<42512, 42539>>, <<42560, 42606>>,
       <<42612, 42619>>, <<42623, 42735>>, <<42775, 42783>>, <<42786, 42888>>, <<42891, 42972>>, <<42993, 43013>>,
       <<43015, 43047>>, <<43056, 43061>>, <<43072, 43123>>, <<43136, 43203>>, <<43205, 43205>>, <<43216, 43225>>,
       <<43250, 43255>>, <<43259, 43259>>, <<43261, 43306>>, <<43312, 43346>>, <<43360, 43388>>, <<43392, 43442>>,
       <<43444, 43455>>, <<43471, 43481>>, <<43488, 43518>>, <<43520, 43574>>, <<43584, 43597>>, <<43600, 43609>>,
       <<43616, 43638>>, <<43642, 43710>>, <<43712, 43712>>, <<43714, 43714>>, <<43739, 43741>>, <<43744, 43759>>,
       <<43762, 43765>>, <<43777, 43782>>, <<43785, 43790>>, <<43793, 43798>>, <<43808, 43814>>, <<43816, 43822>>,
       <<43824, 43866>>, <<43868, 43881>>, <<43888, 44010>>, <<44016, 44025>>, <<44032, 55203>>, <<55216, 55238>>,
       <<55243, 55291>>, <<63744, 64109>>, <<64112, 64217>>, <<64256, 64262>>, <<64275, 64279>>, <<64285, 64296>>,
       <<64298, 64310>>, <<64312, 64316>>, <<64318, 64318>>, <<64320, 64321>>, <<64323, 64324>>, <<64326, 64433>>,
       <<64467, 64829>>, <<64848, 64911>>, <<64914, 64967>>, <<65008, 65019>>, <<65136, 65140>>, <<65142, 65276>>,
       <<65296, 65305>>, <<65313, 65338>>, <<65345, 65370>>, <<65382, 65470>>, <<65474, 65479>>, <<65482, 65487>>,
       <<65490, 65495>>, <<65498, 65500>>, <<65536, 65547>>, <<65549, 65574>>, <<65576, 65594>>, <<65596, 65597>>,
       <<65599, 65613>>, <<65616, 65629>>, <<65664, 65786>>, <<65799, 65843>>, <<65856, 65912>>, <<65930, 65931>>,
       <<66176, 66204>>, <<66208, 66256>>, <<66273, 66299>>, <<66304, 66339>>, <<66349, 66378>>, <<66384, 66426>>,
       <<66432, 66461>>, <<66464, 66499>>, <<66504, 66511>>, <<66513, 66517>>, <<66560, 66717>>, <<66720, 66729>>,
       <<66736, 66771>>, <<66776, 66811>>, <<66816, 66855>>, <<66864, 66915>>, <<66928, 66938>>, <<66940, 66954>>,
       <<66956, 66962>>, <<66964, 66965>>, <<66967, 66977>>, <<66979, 66993>>, <<66995, 67001>>, <<67003, 67004>>,
       <<67008, 67059>>, <<67072, 67382>>, <<67392, 67413>>, <<67424, 67431>>, <<67456, 67461>>, <<67463, 67504>>,
       <<67506, 67514>>, <<67584, 67589>>, <<67592, 67592>>, <<67594, 67637>>, <<67639, 67640>>, <<67644, 67644>>,
       <<67647, 67669>>, <<67672, 67702>>, <<67705, 67742>>, <<67751, 67759>>, <<67808, 67826>>, <<67828, 67829>>,
       <<67835, 67867>>, <<67872, 67897>>, <<67904, 67929>>, <<67968, 68023>>, <<68028, 68047>>, <<68050, 68099>>,
       <<68101, 68102>>, <<68108, 68115>>, <<68117, 68119>>, <<68121, 68149>>, <<68160, 68168>>, <<68192, 68222>>,
       <<68224, 68255>>, <<68288, 68295>>, <<68297, 68324>>, <<68331, 68335>>, <<68352, 68405>>, <<68416, 68437>>,
       <<68440, 68466>>, <<68472, 68497>>, <<68521, 68527>>, <<68608, 68680>>, <<68736, 68786>>, <<68800, 68850>>,
       <<68858, 68903>>, <<68912, 68921>>, <<68928, 68965>>, <<68969, 68969>>, <<68975, 68997>>, <<69216, 69246>>,
       <<69248, 69289>>, <<69291, 69292>>, <<69296, 69297>>, <<69314, 69319>>, <<69370, 69372>>, <<69376, 69415>>,
       <<69424, 69445>>, <<69457, 69460>>, <<69488, 69505>>, <<69552, 69579>>, <<69600, 69622>>, <<69632, 69701>>,
       <<69714, 69743>>, <<69745, 69749>>, <<69760, 69816>>, <<69826, 69826>>, <<69840, 69864>>, <<69872, 69881>>,
       <<69888, 69938>>, <<69942, 69951>>, <<69956, 69959>>, <<69968, 70002>>, <<70006, 70006>>, <<70016, 70079>>,
       <<70081, 70084>>, <<70094, 70106>>, <<70108, 70108>>, <<70113, 70132>>, <<70144, 70161>>, <<70163, 70196>>,
       <<70199, 70199>>, <<70206, 70209>>, <<70272, 70278>>, <<70280, 70280>>, <<70282, 70285>>, <<70287, 70301>>,
       <<70303, 70312>>, <<70320, 70376>>, <<70384, 70393>>, <<70400, 70403>>, <<70405, 70412>>, <<70415, 70416>>,
       <<70419, 70440>>, <<70442, 70448>>, <<70450, 70451>>, <<70453, 70457>>, <<70461, 70468>>, <<70471, 70472>>,
       <<70475, 70476>>, <<70480, 70480>>, <<70487, 70487>>, <<70493, 70499>>, <<70528, 70537>>, <<70539, 70539>>,
       <<70542, 70542>>, <<70544, 70581>>, <<70583, 70592>>, <<70594, 70594>>, <<70597, 70597>>, <<70599, 70602>>,
       <<70604, 70605>>, <<70609, 70609>>, <<70611, 70611>>, <<70656, 70721>>, <<70723, 70725>>, <<70727, 70730>>,
       <<70736, 70745>>, <<70751, 70753>>, <<70784, 70849>>, <<70852, 70853>>, <<70855, 70855>>, <<70864, 70873>>,
       <<71040, 71093>>, <<71096, 71102>>, <<71128, 71133>>, <<71168, 71230>>, <<71232, 71232>>, <<71236, 71236>>,
       <<71248, 71257>>, <<71296, 71349>>, <<71352, 71352>>, <<71360, 71369>>, <<71376, 71395>>, <<71424, 71450>>,
       <<71453, 71466>>, <<71472, 71483>>, <<71488, 71494>>, <<71680, 71736>>, <<71840, 71922>>, <<71935, 71942>>,
       <<71945, 71945>>, <<71948, 71955>>, <<71957, 71958>>, <<71960, 71989>>, <<71991, 71992>>, <<71995, 71996>>,
       <<71999, 72002>>, <<72016, 72025>>, <<72096, 72103>>, <<72106, 72151>>, <<72154, 72159>>, <<72161, 72161>>,
       <<72163, 72164>>, <<72192, 72242>>, <<72245, 72254>>, <<72272, 72343>>, <<72349, 72349>>, <<72368, 72440>>,
       <<72544, 72551>>, <<72640, 72672>>, <<72688, 72697>>, <<72704, 72712>>, <<72714, 72758>>, <<72760, 72766>>,
       <<72768, 72768>>, <<72784, 72812>>, <<72818, 72847>>, <<72850, 72871>>, <<72873, 72886>>, <<72960, 72966>>,
       <<72968, 72969>>, <<72971, 73014>>, <<73018, 73018>>, <<73020, 73021>>, <<73023, 73025>>, <<73027, 73027>>,
       <<73030, 73031>>, <<73040, 73049>>, <<73056, 73061>>, <<73063, 73064>>, <<73066, 73102>>, <<73104, 73105>>,
       <<73107, 73110>>, <<73112, 73112>>, <<73120, 73129>>, <<73136, 73179>>, <<73184, 73193>>, <<73440, 73462>>,
       <<73472, 73488>>, <<73490, 73530>>, <<73534, 73536>>, <<73552, 73561>>, <<73648, 73648>>, <<73664, 73684>>,
       <<73728, 74649>>, <<74752, 74862>>, <<74880, 75075>>, <<77712, 77808>>, <<77824, 78895>>, <<78913, 78918>>,
       <<78944, 82938>>, <<82944, 83526>>, <<90368, 90414>>, <<90416, 90425>>, <<92160, 92728>>, <<92736, 92766>>,
       <<92768, 92777>>, <<92784, 92862>>, <<92864, 92873>>, <<92880, 92909>>, <<92928, 92975>>, <<92992, 92995>>,
       <<93008, 93017>>, <<93019, 93025>>, <<93027, 93047>>, <<93053, 93071>>, <<93504, 93548>>, <<93552, 93561>>,
       <<93760, 93846>>, <<93856, 93880>>, <<93883, 93907>>, <<93952, 94026>>, <<94031, 94087>>, <<94095, 94111>>,
       <<94176, 94177>>, <<94179, 94179>>, <<94192, 94198>>, <<94208, 101589>>, <<101631, 101662>>, <<101760, 101874>>,
       <<110576, 110579>>, <<110581, 110587>>, <<110589, 110590>>, <<110592, 110882>>, <<110898, 110898>>, <<110928, 110930>>,
       <<110933, 110933>>, <<110948, 110951>>, <<110960, 111355>>, <<113664, 113770>>, <<113776, 113788>>, <<113792, 113800>>,
       <<113808, 113817>>, <<113822, 113822>>, <<118000, 118009>>, <<119488, 119507>>, <<119520, 119539>>, <<119648, 119672>>,
       <<119808, 119892>>, <<119894, 119964>>, <<119966, 119967>>, <<119970, 119970>>, <<119973, 119974>>, <<119977, 119980>>,
       <<119982, 119993>>, <<119995, 119995>>, <<119997, 120003>>, <<120005, 120069>>, <<120071, 120074>>, <<120077, 120084>>,
       <<120086, 120092>>, <<120094, 120121>>, <<120123, 120126>>, <<120128, 120132>>, <<120134, 120134>>, <<120138, 120144>>,
       <<120146, 120485>>, <<120488, 120512>>, <<120514, 120538>>, <<120540, 120570>>, <<120572, 120596>>, <<120598, 120628>>,
       <<120630, 120654>>, <<120656, 120686>>, <<120688, 120712>>, <<120714, 120744>>, <<120746, 120770>>, <<120772, 120779>>,
       <<120782, 120831>>, <<122624, 122654>>, <<122661, 122666>>, <<122880, 122886>>, <<122888, 122904>>, <<122907, 122913>>,
       <<122915, 122916>>, <<122918, 122922>>, <<122928, 122989>>, <<123023, 123023>>, <<123136, 123180>>, <<123191, 123197>>,
       <<123200, 123209>>, <<123214, 123214>>, <<123536, 123565>>, <<123584, 123627>>, <<123632, 123641>>, <<124112, 124139>>,
       <<124144, 124153>>, <<124368, 124397>>, <<124400, 124410>>, <<124608, 124638>>, <<124640, 124661>>, <<124670, 124671>>,
       <<124896, 124902>>, <<124904, 124907>>, <<124909, 124910>>, <<124912, 124926>>, <<124928, 125124>>, <<125127, 125135>>,
       <<125184, 125251>>, <<125255, 125255>>, <<125259, 125259>>, <<125264, 125273>>, <<126065, 126123>>, <<126125, 126127>>,
       <<126129, 126132>>, <<126209, 126253>>, <<126255, 126269>>, <<126464, 126467>>, <<126469, 126495>>, <<126497, 126498>>,
       <<126500, 126500>>, <<126503, 126503>>, <<126505, 126514>>, <<126516, 126519>>, <<126521, 126521>>, <<126523, 126523>>,
       <<126530, 126530>>, <<126535, 126535>>, <<126537, 126537>>, <<126539, 126539>>, <<126541, 126543>>, <<126545, 126546>>,
       <<126548, 126548>>, <<126551, 126551>>, <<126553, 126553>>, <<126555, 126555>>, <<126557, 126557>>, <<126559, 126559>>,
       <<126561, 126562>>, <<126564, 126564>>, <<126567, 126570>>, <<126572, 126578>>, <<126580, 126583>>, <<126585, 126588>>,
       <<126590, 126590>>, <<126592, 126601>>, <<126603, 126619>>, <<126625, 126627>>, <<126629, 126633>>, <<126635, 126651>>,
       <<127232, 127244>>, <<127280, 127305>>, <<127312, 127337>>, <<127344, 127369>>, <<130032, 130041>>, <<131072, 173791>>,
       <<173824, 178205>>, <<178208, 183981>>, <<183984, 191456>>, <<191472, 192093>>, <<194560, 195101>>, <<196608, 201546>>,
       <<201552, 210041>> >>

\* The code points above U+007F of a general category Nd, Nl or No.
N ==
    << <<178, 179>>, <<185, 185>>, <<188, 190>>, <<1632, 1641>>, <<1776, 1785>>, <<1984, 1993>>,
       <<2406, 2415>>, <<2534, 2543>>, <<2548, 2553>>, <<2662, 2671>>, <<2790, 2799>>, <<2918, 2927>>,
       <<2930, 2935>>, <<3046, 3058>>, <<3174, 3183>>, <<3192, 3198>>, <<3302, 3311>>, <<3416, 3422>>,
       <<3430, 3448>>, <<3558, 3567>>, <<3664, 3673>>, <<3792, 3801>>, <<3872, 3891>>, <<4160, 4169>>,
       <<4240, 4249>>, <<4969, 4988>>, <<5870, 5872>>, <<6112, 6121>>, <<6128, 6137>>, <<6160, 6169>>,
       <<6470, 6479>>, <<6608, 6618>>, <<6784, 6793>>, <<6800, 6809>>, <<6992, 7001>>, <<7088, 7097>>,
       <<7232, 7241>>, <<7248, 7257>>, <<8304, 8304>>, <<8308, 8313>>, <<8320, 8329>>, <<8528, 8578>>,
       <<8581, 8585>>, <<9312, 9371>>, <<9450, 9471>>, <<10102, 10131>>, <<11517, 11517>>, <<12295, 12295>>,
       <<12321, 12329>>, <<12344, 12346>>, <<12690, 12693>>, <<12832, 12841>>, <<12872, 12879>>, <<12881, 12895>>,
       <<12928, 12937>>, <<12977, 12991>>, <<42528, 42537>>, <<42726, 42735>>, <<43056, 43061>>, <<43216, 43225>>,
       <<43264, 43273>>, <<43472, 43481>>, <<43504, 43513>>, <<43600, 43609>>, <<44016, 44025>>, <<65296, 65305>>,
       <<65799, 65843>>, <<65856, 65912>>, <<65930, 65931>>, <<66273, 66299>>, <<66336, 66339>>, <<66369, 66369>>,
       <<66378, 66378>>, <<66513, 66517>>, <<66720, 66729>>, <<67672, 67679>>, <<67705, 67711>>, <<67751, 67759>>,
       <<67835, 67839>>, <<67862, 67867>>, <<68028, 68029>>, <<68032, 68047>>, <<68050, 68095>>, <<68160, 68168>>,
       <<68221, 68222>>, <<68253, 68255>>, <<68331, 68335>>, <<68440, 68447>>, <<68472, 68479>>, <<68521, 68527>>,
       <<68858, 68863>>, <<68912, 68921>>, <<68928, 68937>>, <<69216, 69246>>, <<69405, 69414>>, <<69457, 69460>>,
       <<69573, 69579>>, <<69714, 69743>>, <<69872, 69881>>, <<69942, 69951>>, <<70096, 70105>>, <<70113, 70132>>,
       <<70384, 70393>>, <<70736, 70745>>, <<70864, 70873>>, <<71248, 71257>>, <<71360, 71369>>, <<71376, 71395>>,
       <<71472, 71483>>, <<71904, 71922>>, <<72016, 72025>>, <<72688, 72697>>, <<72784, 72812>>, <<73040, 73049>>,
       <<73120, 73129>>, <<73184, 73193>>, <<73552, 73561>>, <<73664, 73684>>, <<74752, 74862>>, <<90416, 90425>>,
       <<92768, 92777>>, <<92864, 92873>>, <<93008, 93017>>, <<93019, 93025>>, <<93552, 93561>>, <<93824, 93846>>,
       <<94196, 94198>>, <<118000, 118009>>, <<119488, 119507>>, <<119520, 119539>>, <<119648, 119672>>, <<120782, 120831>>,
       <<123200, 123209>>, <<123632, 123641>>, <<124144, 124153>>, <<124401, 124410>>, <<125127, 125135>>, <<125264, 125273>>,
       <<126065, 126123>>, <<126125, 126127>>, <<126129, 126132>>, <<126209, 126253>>, <<126255, 126269>>, <<127232, 127244>>,
       <<130032, 130041>> >>

White_Space ==
    << <<9, 13>>, <<32, 32>>, <<133, 133>>, <<160, 160>>, <<5760, 5760>>, <<8192, 8202>>,
       <<8232, 8233>>, <<8239, 8239>>, <<8287, 8287>>, <<12288, 12288>> >>

Cased ==
    << <<65, 90>>, <<97, 122>>, <<170, 170>>, <<181, 181>>, <<186, 186>>, <<192, 214>>,
       <<216, 246>>, <<248, 442>>, <<444, 447>>, <<452, 659>>, <<662, 696>>, <<704, 705>>,
       <<736, 740>>, <<837, 837>>, <<880, 883>>, <<886, 887>>, <<890, 893>>, <<895, 895>>,
       <<902, 902>>, <<904, 906>>, <<908, 908>>, <<910, 929>>, <<931, 1013>>, <<1015, 1153>>,
       <<1162, 1327>>, <<1329, 1366>>, <<1376, 1416>>, <<4256, 4293>>, <<4295, 4295>>, <<4301, 4301>>,
       <<4304, 4346>>, <<4348, 4351>>, <<5024, 5109>>, <<5112, 5117>>, <<7296, 7306>>, <<7312, 7354>>,
       <<7357, 7359>>, <<7424, 7615>>, <<7680, 7957>>, <<7960, 7965>>, <<7968, 8005>>, <<8008, 8013>>,
       <<8016, 8023>>, <<8025, 8025>>, <<8027, 8027>>, <<8029, 8029>>, <<8031, 8061>>, <<8064, 8116>>,
       <<8118, 8124>>, <<8126, 8126>>, <<8130, 8132>>, <<8134, 8140>>, <<8144, 8147>>, <<8150, 8155>>,
       <<8160, 8172>>, <<8178, 8180>>, <<8182, 8188>>, <<8305, 8305>>, <<8319, 8319>>, <<8336, 8348>>,
       <<8450, 8450>>, <<8455, 8455>>, <<8458, 8467>>, <<8469, 8469>>, <<8473, 8477>>, <<8484, 8484>>,
       <<8486, 8486>>, <<8488, 8488>>, <<8490, 8493>>, <<8495, 8500>>, <<8505, 8505>>, <<8508, 8511>>,
       <<8517, 8521>>, <<8526, 8526>>, <<8544, 8575>>, <<8579, 8580>>, <<9398, 9449>>, <<11264, 11492>>,
       <<11499, 11502>>, <<11506, 11507>>, <<11520, 11557>>, <<11559, 11559>>, <<11565, 11565>>, <<42560, 42605>>,
       <<42624, 42653>>, <<42786, 42887>>, <<42891, 42894>>, <<42896, 42972>>, <<42993, 42998>>, <<43000, 43002>>,
       <<43824, 43866>>, <<43868, 43881>>, <<43888, 43967>>, <<64256, 64262>>, <<64275, 64279>>, <<65313, 65338>>,
       <<65345, 65370>>, <<66560, 66639>>, <<66736, 66771>>, <<66776, 66811>>, <<66928, 66938>>, <<66940, 66954>>,
       <<66956, 66962>>, <<66964, 66965>>, <<66967, 66977>>, <<66979, 66993>>, <<66995, 67001>>, <<67003, 67004>>,
       <<67456, 67456>>, <<67459, 67461>>, <<67463, 67504>>, <<67506, 67514>>, <<68736, 68786>>, <<68800, 68850>>,
       <<68944, 68965>>, <<68976, 68997>>, <<71840, 71903>>, <<93760, 93823>>, <<93856, 93880>>, <<93883, 93907>>,
       <<119808, 119892>>, <<119894, 119964>>, <<119966, 119967>>, <<119970, 119970>>, <<119973, 119974>>, <<119977, 119980>>,
       <<119982, 119993>>, <<119995, 119995>>, <<119997, 120003>>, <<120005, 120069>>, <<120071, 120074>>, <<120077, 120084>>,
       <<120086, 120092>>, <<120094, 120121>>, <<120123, 120126>>, <<120128, 120132>>, <<120134, 120134>>, <<120138, 120144>>,
       <<120146, 120485>>, <<120488, 120512>>, <<120514, 120538>>, <<120540, 120570>>, <<120572, 120596>>, <<120598, 120628>>,
       <<120630, 120654>>, <<120656, 120686>>, <<120688, 120712>>, <<120714, 120744>>, <<120746, 120770>>, <<120772, 120779>>,
       <<122624, 122633>>, <<122635, 122654>>, <<122661, 122666>>, <<122928, 122989>>, <<125184, 125251>>, <<127280, 127305>>,
       <<127312, 127337>>, <<127344, 127369>> >>

Case_Ignorable ==
    << <<39, 39>>, <<46, 46>>, <<58, 58>>, <<94, 94>>, <<96, 96>>, <<168, 168>>,
       <<173, 173>>, <<175, 175>>, <<180, 180>>, <<183, 184>>, <<688, 879>>, <<884, 885>>,
       <<890, 890>>, <<900, 901>>, <<903, 903>>, <<1155, 1161>>, <<1369, 1369>>, <<1375, 1375>>,
       <<1425, 1469>>, <<1471, 1471>>, <<1473, 1474>>, <<1476, 1477>>, <<1479, 1479>>, <<1524, 1524>>,
       <<1536, 1541>>, <<1552, 1562>>, <<1564, 1564>>, <<1600, 1600>>, <<1611, 1631>>, <<1648, 1648>>,
       <<1750, 1757>>, <<1759, 1768>>, <<1770, 1773>>, <<1807, 1807>>, <<1809, 1809>>, <<1840, 1866>>,
       <<1958, 1968>>, <<2027, 2037>>, <<2042, 2042>>, <<2045, 2045>>, <<2070, 2093>>, <<2137, 2139>>,
       <<2184, 2184>>, <<2192, 2193>>, <<2199, 2207>>, <<2249, 2306>>, <<2362, 2362>>, <<2364, 2364>>,
       <<2369, 2376>>, <<2381, 2381>>, <<2385, 2391>>, <<2402, 2403>>, <<2417, 2417>>, <<2433, 2433>>,
       <<2492, 2492>>, <<2497, 2500>>, <<2509, 2509>>, <<2530, 2531>>, <<2558, 2558>>, <<2561, 2562>>,
       <<2620, 2620>>, <<2625, 2626>>, <<2631, 2632>>, <<2635, 2637>>, <<2641, 2641>>, <<2672, 2673>>,
       <<2677, 2677>>, <<2689, 2690>>, <<2748, 2748>>, <<2753, 2757>>, <<2759, 2760>>, <<2765, 2765>>,
       <<2786, 2787>>, <<2810, 2815>>, <<2817, 2817>>, <<2876, 2876>>, <<2879, 2879>>, <<2881, 2884>>,
       <<2893, 2893>>, <<2901, 2902>>, <<2914, 2915>>, <<2946, 2946>>, <<3008, 3008>>, <<3021, 3021>>,
       <<3072, 3072>>, <<3076, 3076>>, <<3132, 3132>>, <<3134, 3136>>, <<3142, 3144>>, <<3146, 3149>>,
       <<3157, 3158>>, <<3170, 3171>>, <<3201, 3201>>, <<3260, 3260>>, <<3263, 3263>>, <<3270, 3270>>,
       <<3276, 3277>>, <<3298, 3299>>, <<3328, 3329>>, <<3387, 3388>>, <<3393, 3396>>, <<3405, 3405>>,
       <<3426, 3427>>, <<3457, 3457>>, <<3530, 3530>>, <<3538, 3540>>, <<3542, 3542>>, <<3633, 3633>>,
       <<3636, 3642>>, <<3654, 3662>>, <<3761, 3761>>, <<3764, 3772>>, <<3782, 3782>>, <<3784, 3790>>,
       <<3864, 3865>>, <<3893, 3893>>, <<3895, 3895>>, <<3897, 3897>>, <<3953, 3966>>, <<3968, 3972>>,
       <<3974, 3975>>, <<3981, 3991>>, <<3993, 4028>>, <<4038, 4038>>, <<4141, 4144>>, <<4146, 4151>>,
       <<4153, 4154>>, <<4157, 4158>>, <<4184, 4185>>, <<4190, 4192>>, <<4209, 4212>>, <<4226, 4226>>,
       <<4229, 4230>>, <<4237, 4237>>, <<4253, 4253>>, <<4348, 4348>>, <<4957, 4959>>, <<5906, 5908>>,
       <<5938, 5939>>, <<5970, 5971>>, <<6002, 6003>>, <<6068, 6069>>, <<6071, 6077>>, <<6086, 6086>>,
       <<6089, 6099>>, <<6103, 6103>>, <<6109, 6109>>, <<6155, 6159>>, <<6211, 6211>>, <<6277, 6278>>,
       <<6313, 6313>>, <<6432, 6434>>, <<6439, 6440>>, <<6450, 6450>>, <<6457, 6459>>, <<6679, 6680>>,
       <<6683, 6683>>, <<6742, 6742>>, <<6744, 6750>>, <<6752, 6752>>, <<6754, 6754>>, <<6757, 6764>>,
       <<6771, 6780>>, <<6783, 6783>>, <<6823, 6823>>, <<6832, 6877>>, <<6880, 6891>>, <<6912, 6915>>,
       <<6964, 6964>>, <<6966, 6970>>, <<6972, 6972>>, <<6978, 6978>>, <<7019, 7027>>, <<7040, 7041>>,
       <<7074, 7077>>, <<7080, 7081>>, <<7083, 7085>>, <<7142, 7142>>, <<7144, 7145>>, <<7149, 7149>>,
       <<7151, 7153>>, <<7212, 7219>>, <<7222, 7223>>, <<7288, 7293>>, <<7376, 7378>>, <<7380, 7392>>,
       <<7394, 7400>>, <<7405, 7405>>, <<7412, 7412>>, <<7416, 7417>>, <<7468, 7530>>, <<7544, 7544>>,
       <<7579, 7679>>, <<8125, 8125>>, <<8127, 8129>>, <<8141, 8143>>, <<8157, 8159>>, <<8173, 8175>>,
       <<8189, 8190>>, <<8203, 8207>>, <<8216, 8217>>, <<8228, 8228>>, <<8231, 8231>>, <<8234, 8238>>,
       <<8288, 8292>>, <<8294, 8303>>, <<8305, 8305>>, <<8319, 8319>>, <<8336, 8348>>, <<8400, 8432>>,
       <<11388, 11389>>, <<11503, 11505>>, <<11631, 11631>>, <<11647, 11647>>, <<11744, 11775>>, <<11823, 11823>>,
       <<12293, 12293>>, <<12330, 12333>>, <<12337, 12341>>, <<12347, 12347>>, <<12441, 12446>>, <<12540, 12542>>,
       <<40981, 40981>>, <<42232, 42237>>, <<42508, 42508>>, <<42607, 42610>>, <<42612, 42621>>, <<42623, 42623>>,
       <<42652, 42655>>, <<42736, 42737>>, <<42752, 42785>>, <<42864, 42864>>, <<42888, 42890>>, <<42993, 42996>>,
       <<43000, 43001>>, <<43010, 43010>>, <<43014, 43014>>, <<43019, 43019>>, <<43045, 43046>>, <<43052, 43052>>,
       <<43204, 43205>>, <<43232, 43249>>, <<43263, 43263>>, <<43302, 43309>>, <<43335, 43345>>, <<43392, 43394>>,
       <<43443, 43443>>, <<43446, 43449>>, <<43452, 43453>>, <<43471, 43471>>, <<43493, 43494>>, <<43561, 43566>>,
       <<43569, 43570>>, <<43573, 43574>>, <<43587, 43587>>, <<43596, 43596>>, <<43632, 43632>>, <<43644, 43644>>,
       <<43696, 43696>>, <<43698, 43700>>, <<43703, 43704>>, <<43710, 43711>>, <<43713, 43713>>, <<43741, 43741>>,
       <<43756, 43757>>, <<43763, 43764>>, <<43766, 43766>>, <<43867, 43871>>, <<43881, 43883>>, <<44005, 44005>>,
       <<44008, 44008>>, <<44013, 44013>>, <<64286, 64286>>, <<64434, 64450>>, <<65024, 65039>>, <<65043, 65043>>,
       <<65056, 65071>>, <<65106, 65106>>, <<65109, 65109>>, <<65279, 65279>>, <<65287, 65287>>, <<65294, 65294>>,
       <<65306, 65306>>, <<65342, 65342>>, <<65344, 65344>>, <<65392, 65392>>, <<65438, 65439>>, <<65507, 65507>>,
       <<65529, 65531>>, <<66045, 66045>>, <<66272, 66272>>, <<66422, 66426>>, <<67456, 67461>>, <<67463, 67504>>,
       <<67506, 67514>>, <<68097, 68099>>, <<68101, 68102>>, <<68108, 68111>>, <<68152, 68154>>, <<68159, 68159>>,
       <<68325, 68326>>, <<68900, 68903>>, <<68942, 68942>>, <<68969, 68973>>, <<68975, 68975>>, <<69291, 69292>>,
       <<69317, 69317>>, <<69370, 69375>>, <<69446, 69456>>, <<69506, 69509>>, <<69633, 69633>>, <<69688, 69702>>,
       <<69744, 69744>>, <<69747, 69748>>, <<69759, 69761>>, <<69811, 69814>>, <<69817, 69818>>, <<69821, 69821>>,
       <<69826, 69826>>, <<69837, 69837>>, <<69888, 69890>>, <<69927, 69931>>, <<69933, 69940>>, <<70003, 70003>>,
       <<70016, 70017>>, <<70070, 70078>>, <<70089, 70092>>, <<70095, 70095>>, <<70191, 70193>>, <<70196, 70196>>,
       <<70198, 70199>>, <<70206, 70206>>, <<70209, 70209>>, <<70367, 70367>>, <<70371, 70378>>, <<70400, 70401>>,
       <<70459, 70460>>, <<70464, 70464>>, <<70502, 70508>>, <<70512, 70516>>, <<70587, 70592>>, <<70606, 70606>>,
       <<70608, 70608>>, <<70610, 70610>>, <<70625, 70626>>, <<70712, 70719>>, <<70722, 70724>>, <<70726, 70726>>,
       <<70750, 70750>>, <<70835, 70840>>, <<70842, 70842>>, <<70847, 70848>>, <<70850, 70851>>, <<71090, 71093>>,
       <<71100, 71101>>, <<71103, 71104>>, <<71132, 71133>>, <<71219, 71226>>, <<71229, 71229>>, <<71231, 71232>>,
       <<71339, 71339>>, <<71341, 71341>>, <<71344, 71349>>, <<71351, 71351>>, <<71453, 71453>>, <<71455, 71455>>,
       <<71458, 71461>>, <<71463, 71467>>, <<71727, 71735>>, <<71737, 71738>>, <<71995, 71996>>, <<71998, 71998>>,
       <<72003, 72003>>, <<72148, 72151>>, <<72154, 72155>>, <<72160, 72160>>, <<72193, 72202>>, <<72243, 72248>>,
       <<72251, 72254>>, <<72263, 72263>>, <<72273, 72278>>, <<72281, 72283>>, <<72330, 72342>>, <<72344, 72345>>,
       <<72544, 72544>>, <<72546, 72548>>, <<72550, 72550>>, <<72752, 72758>>, <<72760, 72765>>, <<72767, 72767>>,
       <<72850, 72871>>, <<72874, 72880>>, <<72882, 72883>>, <<72885, 72886>>, <<73009, 73014>>, <<73018, 73018>>,
       <<73020, 73021>>, <<73023, 73029>>, <<73031, 73031>>, <<73104, 73105>>, <<73109, 73109>>, <<73111, 73111>>,
       <<73177, 73177>>, <<73459, 73460>>, <<73472, 73473>>, <<73526, 73530>>, <<73536, 73536>>, <<73538, 73538>>,
       <<73562, 73562>>, <<78896, 78912>>, <<78919, 78933>>, <<90398, 90409>>, <<90413, 90415>>, <<92912, 92916>>,
       <<92976, 92982>>, <<92992, 92995>>, <<93504, 93506>>, <<93547, 93548>>, <<94031, 94031>>, <<94095, 94111>>,
       <<94176, 94177>>, <<94179, 94180>>, <<94194, 94195>>, <<110576, 110579>>, <<110581, 110587>>, <<110589, 110590>>,
       <<113821, 113822>>, <<113824, 113827>>, <<118528, 118573>>, <<118576, 118598>>, <<119143, 119145>>, <<119155, 119170>>,
       <<119173, 119179>>, <<119210, 119213>>, <<119362, 119364>>, <<121344, 121398>>, <<121403, 121452>>, <<121461, 121461>>,
       <<121476, 121476>>, <<121499, 121503>>, <<121505, 121519>>, <<122880, 122886>>, <<122888, 122904>>, <<122907, 122913>>,
       <<122915, 122916>>, <<122918, 122922>>, <<122928, 122989>>, <<123023, 123023>>, <<123184, 123197>>, <<123566, 123566>>,
       <<123628, 123631>>, <<124139, 124143>>, <<124398, 124399>>, <<124643, 124643>>, <<124646, 124646>>, <<124654, 124655>>,
       <<124661, 124661>>, <<124671, 124671>>, <<125136, 125142>>, <<125252, 125259>>, <<127995, 127999>>, <<917505, 917505>>,
       <<917536, 917631>>, <<917760, 917999>> >>

\* The one-character lowercase mappings above U+007F, as runs
\* <<first, last, step, offset>>: every step-th code point from first to
\* last maps to itself plus offset.
LOWERCASE_TABLE ==
    << <<192, 222, 2, 32>>, <<193, 214, 1, 32>>, <<217, 222, 1, 32>>, <<256, 302, 2, 1>>,
       <<306, 310, 2, 1>>, <<313, 327, 2, 1>>, <<330, 374, 2, 1>>, <<376, 376, 1, -121>>,
       <<377, 381, 2, 1>>, <<385, 385, 1, 210>>, <<386, 388, 2, 1>>, <<390, 390, 1, 206>>,
       <<391, 391, 1, 1>>, <<393, 394, 1, 205>>, <<395, 395, 1, 1>>, <<398, 398, 1, 79>>,
       <<399, 399, 1, 202>>, <<400, 400, 1, 203>>, <<401, 401, 1, 1>>, <<403, 403, 1, 205>>,
       <<404, 404, 1, 207>>, <<406, 406, 1, 211>>, <<407, 407, 1, 209>>, <<408, 408, 1, 1>>,
       <<412, 412, 1, 211>>, <<413, 413, 1, 213>>, <<415, 415, 1, 214>>, <<416, 420, 2, 1>>,
       <<422, 422, 1, 218>>, <<423, 423, 1, 1>>, <<425, 425, 1, 218>>, <<428, 428, 1, 1>>,
       <<430, 430, 1, 218>>, <<431, 431, 1, 1>>, <<433, 434, 1, 217>>, <<435, 437, 2, 1>>,
       <<439, 439, 1, 219>>, <<440, 440, 1, 1>>, <<444, 444, 1, 1>>, <<452, 452, 1, 2>>,
       <<453, 453, 1, 1>>, <<455, 455, 1, 2>>, <<456, 456, 1, 1>>, <<458, 458, 1, 2>>,
       <<459, 475, 2, 1>>, <<478, 494, 2, 1>>, <<497, 497, 1, 2>>, <<498, 500, 2, 1>>,
       <<502, 502, 1, -97>>, <<503, 503, 1, -56>>, <<504, 542, 2, 1>>, <<544, 544, 1, -130>>,
       <<546, 562, 2, 1>>, <<570, 570, 1, 10795>>, <<571, 571, 1, 1>>, <<573, 573, 1, -163>>,
       <<574, 574, 1, 10792>>, <<577, 577, 1, 1>>, <<579, 579, 1, -195>>, <<580, 580, 1, 69>>,
       <<581, 581, 1, 71>>, <<582, 590, 2, 1>>, <<880, 882, 2, 1>>, <<886, 886, 1, 1>>,
       <<895, 895, 1, 116>>, <<902, 902, 1, 38>>, <<904, 906, 1, 37>>, <<908, 908, 1, 64>>,
       <<910, 911, 1, 63>>, <<913, 939, 2, 32>>, <<193, 214, 1, 32>>, <<217, 222, 1, 32>>,
       <<256, 302, 2, 1>>, <<306, 310, 2, 1>>, <<313, 327, 2, 1>>, <<330, 374, 2, 1>>,
       <<376, 376, 1, -121>>, <<377, 381, 2, 1>>, <<385, 385, 1, 210>>, <<386, 388, 2, 1>>,
       <<390, 390, 1, 206>>, <<391, 391, 1, 1>>, <<393, 394, 1, 205>>, <<395, 395, 1, 1>>,
       <<398, 398, 1, 79>>, <<399, 399, 1, 202>>, <<400, 400, 1, 203>>, <<401, 401, 1, 1>>,
       <<403, 403, 1, 205>>, <<404, 404, 1, 207>>, <<406, 406, 1, 211>>, <<407, 407, 1, 209>>,
       <<408, 408, 1, 1>>, <<412, 412, 1, 211>>, <<413, 413, 1, 213>>, <<415, 415, 1, 214>>,
       <<416, 420, 2, 1>>, <<422, 422, 1, 218>>, <<423, 423, 1, 1>>, <<425, 425, 1, 218>>,
       <<428, 428, 1, 1>>, <<430, 430, 1, 218>>, <<431, 431, 1, 1>>, <<433, 434, 1, 217>>,
       <<435, 437, 2, 1>>, <<439, 439, 1, 219>>, <<440, 440, 1, 1>>, <<444, 444, 1, 1>>,
       <<452, 452, 1, 2>>, <<453, 453, 1, 1>>, <<455, 455, 1, 2>>, <<456, 456, 1, 1>>,
       <<458, 458, 1, 2>>, <<459, 475, 2, 1>>, <<478, 494, 2, 1>>, <<497, 497, 1, 2>>,
       <<498, 500, 2, 1>>, <<502, 502, 1, -97>>, <<503, 503, 1, -56>>, <<504, 542, 2, 1>>,
       <<544, 544, 1, -130>>, <<546, 562, 2, 1>>, <<570, 570, 1, 10795>>, <<571, 571, 1, 1>>,
       <<573, 573, 1, -163>>, <<574, 574, 1, 10792>>, <<577, 577, 1, 1>>, <<579, 579, 1, -195>>,
       <<580, 580, 1, 69>>, <<581, 581, 1, 71>>, <<582, 590, 2, 1>>, <<880, 882, 2, 1>>,
       <<886, 886, 1, 1>>, <<895, 895, 1, 116>>, <<902, 902, 1, 38>>, <<904, 906, 1, 37>>,
       <<908, 908, 1, 64>>, <<910, 911, 1, 63>>, <<914, 929, 1, 32>>, <<932, 939, 1, 32>>,
       <<975, 975, 1, 8>>, <<984, 1006, 2, 1>>, <<1012, 1012, 1, -60>>, <<1015, 1015, 1, 1>>,
       <<1017, 1017, 1, -7>>, <<1018, 1018, 1, 1>>, <<1021, 1023, 1, -130>>, <<1024, 1039, 1, 80>>,
       <<1040, 1071, 1, 32>>, <<1120, 1152, 2, 1>>, <<1162, 1214, 2, 1>>, <<1216, 1216, 1, 15>>,
       <<1217, 1229, 2, 1>>, <<1232, 1326, 2, 1>>, <<1329, 1366, 1, 48>>, <<4256, 4293, 1, 7264>>,
       <<4295, 4295, 1, 7264>>, <<4301, 4301, 1, 7264>>, <<5024, 5103, 1, 38864>>, <<5104, 5109, 1, 8>>,
       <<7305, 7305, 1, 1>>, <<7312, 7354, 1, -3008>>, <<7357, 7359, 1, -3008>>, <<7680, 7828, 2, 1>>,
       <<7838, 7838, 1, -7615>>, <<7840, 7934, 2, 1>>, <<7944, 7951, 1, -8>>, <<7960, 7965, 1, -8>>,
       <<7976, 7983, 1, -8>>, <<7992, 7999, 1, -8>>, <<8008, 8013, 1, -8>>, <<8025, 8031, 2, -8>>,
       <<8040, 8047, 1, -8>>, <<8072, 8079, 1, -8>>, <<8088, 8095, 1, -8>>, <<8104, 8111, 1, -8>>,
       <<8120, 8121, 1, -8>>, <<8122, 8123, 1, -74>>, <<8124, 8124, 1, -9>>, <<8136, 8139, 1, -86>>,
       <<8140, 8140, 1, -9>>, <<8152, 8153, 1, -8>>, <<8154, 8155, 1, -100>>, <<8168, 8169, 1, -8>>,
       <<8170, 8171, 1, -112>>, <<8172, 8172, 1, -7>>, <<8184, 8185, 1, -128>>, <<8186, 8187, 1, -126>>,
       <<8188, 8188, 1, -9>>, <<8486, 8486, 1, -7517>>, <<8490, 8490, 1, -8383>>, <<8491, 8491, 1, -8262>>,
       <<8498, 8498, 1, 28>>, <<8544, 8559, 1, 16>>, <<8579, 8579, 1, 1>>, <<9398, 9423, 1, 26>>,
       <<11264, 11311, 1, 48>>, <<11360, 11360, 1, 1>>, <<11362, 11362, 1, -10743>>, <<11363, 11363, 1, -3814>>,
       <<11364, 11364, 1, -10727>>, <<11367, 11371, 2, 1>>, <<11373, 11373, 1, -10780>>, <<11374, 11374, 1, -10749>>,
       <<11375, 11375, 1, -10783>>, <<11376, 11376, 1, -10782>>, <<11378, 11378, 1, 1>>, <<11381, 11381, 1, 1>>,
       <<11390, 11391, 1, -10815>>, <<11392, 11490, 2, 1>>, <<11499, 11501, 2, 1>>, <<11506, 11506, 1, 1>>,
       <<42560, 42604, 2, 1>>, <<42624, 42650, 2, 1>>, <<42786, 42798, 2, 1>>, <<42802, 42862, 2, 1>>,
       <<42873, 42875, 2, 1>>, <<42877, 42877, 1, -35332>>, <<42878, 42886, 2, 1>>, <<42891, 42891, 1, 1>>,
       <<42893, 42893, 1, -42280>>, <<42896, 42898, 2, 1>>, <<42902, 42920, 2, 1>>, <<42922, 42922, 1, -42308>>,
       <<42923, 42923, 1, -42319>>, <<42924, 42924, 1, -42315>>, <<42925, 42925, 1, -42305>>, <<42926, 42926, 1, -42308>>,
       <<42928, 42928, 1, -42258>>, <<42929, 42929, 1, -42282>>, <<42930, 42930, 1, -42261>>, <<42931, 42931, 1, 928>>,
       <<42932, 42946, 2, 1>>, <<42948, 42948, 1, -48>>, <<42949, 42949, 1, -42307>>, <<42950, 42950, 1, -35384>>,
       <<42951, 42953, 2, 1>>, <<42955, 42955, 1, -42343>>, <<42956, 42970, 2, 1>>, <<42972, 42972, 1, -42561>>,
       <<42997, 42997, 1, 1>>, <<65313, 65338, 1, 32>>, <<66560, 66599, 1, 40>>, <<66736, 66771, 1, 40>>,
       <<66928, 66964, 2, 39>>, <<193, 214, 1, 32>>, <<217, 222, 1, 32>>, <<256, 302, 2, 1>>,
       <<306, 310, 2, 1>>, <<313, 327, 2, 1>>, <<330, 374, 2, 1>>, <<376, 376, 1, -121>>,
       <<377, 381, 2, 1>>, <<385, 385, 1, 210>>, <<386, 388, 2, 1>>, <<390, 390, 1, 206>>,
       <<391, 391, 1, 1>>, <<393, 394, 1, 205>>, <<395, 395, 1, 1>>, <<398, 398, 1, 79>>,
       <<399, 399, 1, 202>>, <<400, 400, 1, 203>>, <<401, 401, 1, 1>>, <<403, 403, 1, 205>>,
       <<404, 404, 1, 207>>, <<406, 406, 1, 211>>, <<407, 407, 1, 209>>, <<408, 408, 1, 1>>,
       <<412, 412, 1, 211>>, <<413, 413, 1, 213>>, <<415, 415, 1, 214>>, <<416, 420, 2, 1>>,
       <<422, 422, 1, 218>>, <<423, 423, 1, 1>>, <<425, 425, 1, 218>>, <<428, 428, 1, 1>>,
       <<430, 430, 1, 218>>, <<431, 431, 1, 1>>, <<433, 434, 1, 217>>, <<435, 437, 2, 1>>,
       <<439, 439, 1, 219>>, <<440, 440, 1, 1>>, <<444, 444, 1, 1>>, <<452, 452, 1, 2>>,
       <<453, 453, 1, 1>>, <<455, 455, 1, 2>>, <<456, 456, 1, 1>>, <<458, 458, 1, 2>>,
       <<459, 475, 2, 1>>, <<478, 494, 2, 1>>, <<497, 497, 1, 2>>, <<498, 500, 2, 1>>,
       <<502, 502, 1, -97>>, <<503, 503, 1, -56>>, <<504, 542, 2, 1>>, <<544, 544, 1, -130>>,
       <<546, 562, 2, 1>>, <<570, 570, 1, 10795>>, <<571, 571, 1, 1>>, <<573, 573, 1, -163>>,
       <<574, 574, 1, 10792>>, <<577, 577, 1, 1>>, <<579, 579, 1, -195>>, <<580, 580, 1, 69>>,
       <<581, 581, 1, 71>>, <<582, 590, 2, 1>>, <<880, 882, 2, 1>>, <<886, 886, 1, 1>>,
       <<895, 895, 1, 116>>, <<902, 902, 1, 38>>, <<904, 906, 1, 37>>, <<908, 908, 1, 64>>,
       <<910, 911, 1, 63>>, <<914, 929, 1, 32>>, <<932, 939, 1, 32>>, <<975, 975, 1, 8>>,
       <<984, 1006, 2, 1>>, <<1012, 1012, 1, -60>>, <<1015, 1015, 1, 1>>, <<1017, 1017, 1, -7>>,
       <<1018, 1018, 1, 1>>, <<1021, 1023, 1, -130>>, <<1024, 1039, 1, 80>>, <<1040, 1071, 1, 32>>,
       <<1120, 1152, 2, 1>>, <<1162, 1214, 2, 1>>, <<1216, 1216, 1, 15>>, <<1217, 1229, 2, 1>>,
       <<1232, 1326, 2, 1>>, <<1329, 1366, 1, 48>>, <<4256, 4293, 1, 7264>>, <<4295, 4295, 1, 7264>>,
       <<4301, 4301, 1, 7264>>, <<5024, 5103, 1, 38864>>, <<5104, 5109, 1, 8>>, <<7305, 7305, 1, 1>>,
       <<7312, 7354, 1, -3008>>, <<7357, 7359, 1, -3008>>, <<7680, 7828, 2, 1>>, <<7838, 7838, 1, -7615>>,
       <<7840, 7934, 2, 1>>, <<7944, 7951, 1, -8>>, <<7960, 7965, 1, -8>>, <<7976, 7983, 1, -8>>,
       <<7992, 7999, 1, -8>>, <<8008, 8013, 1, -8>>, <<8025, 8031, 2, -8>>, <<8040, 8047, 1, -8>>,
       <<8072, 8079, 1, -8>>, <<8088, 8095, 1, -8>>, <<8104, 8111, 1, -8>>, <<8120, 8121, 1, -8>>,
       <<8122, 8123, 1, -74>>, <<8124, 8124, 1, -9>>, <<8136, 8139, 1, -86>>, <<8140, 8140, 1, -9>>,
       <<8152, 8153, 1, -8>>, <<8154, 8155, 1, -100>>, <<8168, 8169, 1, -8>>, <<8170, 8171, 1, -112>>,
       <<8172, 8172, 1, -7>>, <<8184, 8185, 1, -128>>, <<8186, 8187, 1, -126>>, <<8188, 8188, 1, -9>>,
       <<8486, 8486, 1, -7517>>, <<8490, 8490, 1, -8383>>, <<8491, 8491, 1, -8262>>, <<8498, 8498, 1, 28>>,
       <<8544, 8559, 1, 16>>, <<8579, 8579, 1, 1>>, <<9398, 9423, 1, 26>>, <<11264, 11311, 1, 48>>,
       <<11360, 11360, 1, 1>>, <<11362, 11362, 1, -10743>>, <<11363, 11363, 1, -3814>>, <<11364, 11364, 1, -10727>>,
       <<11367, 11371, 2, 1>>, <<11373, 11373, 1, -10780>>, <<11374, 11374, 1, -10749>>, <<11375, 11375, 1, -10783>>,
       <<11376, 11376, 1, -10782>>, <<11378, 11378, 1, 1>>, <<11381, 11381, 1, 1>>, <<11390, 11391, 1, -10815>>,
       <<11392, 11490, 2, 1>>, <<11499, 11501, 2, 1>>, <<11506, 11506, 1, 1>>, <<42560, 42604, 2, 1>>,
       <<42624, 42650, 2, 1>>, <<42786, 42798, 2, 1>>, <<42802, 42862, 2, 1>>, <<42873, 42875, 2, 1>>,
       <<42877, 42877, 1, -35332>>, <<42878, 42886, 2, 1>>, <<42891, 42891, 1, 1>>, <<42893, 42893, 1, -42280>>,
       <<42896, 42898, 2, 1>>, <<42902, 42920, 2, 1>>, <<42922, 42922, 1, -42308>>, <<42923, 42923, 1, -42319>>,
       <<42924, 42924, 1, -42315>>, <<42925, 42925, 1, -42305>>, <<42926, 42926, 1, -42308>>, <<42928, 42928, 1, -42258>>,
       <<42929, 42929, 1, -42282>>, <<42930, 42930, 1, -42261>>, <<42931, 42931, 1, 928>>, <<42932, 42946, 2, 1>>,
       <<42948, 42948, 1, -48>>, <<42949, 42949, 1, -42307>>, <<42950, 42950, 1, -35384>>, <<42951, 42953, 2, 1>>,
       <<42955, 42955, 1, -42343>>, <<42956, 42970, 2, 1>>, <<42972, 42972, 1, -42561>>, <<42997, 42997, 1, 1>>,
       <<65313, 65338, 1, 32>>, <<66560, 66599, 1, 40>>, <<66736, 66771, 1, 40>>, <<66929, 66938, 1, 39>>,
       <<66941, 66954, 1, 39>>, <<66957, 66962, 1, 39>>, <<66965, 66965, 1, 39>>, <<68736, 68786, 1, 64>>,
       <<68944, 68965, 1, 32>>, <<71840, 71871, 1, 32>>, <<93760, 93791, 1, 32>>, <<93856, 93880, 1, 27>>,
       <<125184, 125217, 1, 34>> >>

\* char::is_ascii_digit
is_ascii_digit(c) == c \in Digits

\* char::is_numeric
is_numeric(c) == IF Len(c) = 1 THEN c \in Digits ELSE in_ranges(code_point(c), N)

\* char::is_alphanumeric
is_alphanumeric(c) ==
    IF Len(c) = 1 THEN c \in Range(Uppers) \cup Range(Lowers) \cup Digits
    ELSE in_ranges(code_point(c), Alphabetic_or_N)

\* char::is_whitespace
is_whitespace(c) == c = " " \/ (Len(c) > 1 /\ in_ranges(code_point(c), White_Space))

\* The lowercase of the code point n > U+007F: U+0130 maps to two
\* characters, the others to one.
to_lower_of(n) ==
    IF n = 304 THEN <<"i", "U+0307">>
    ELSE IF \E k \in 1..Len(LOWERCASE_TABLE) :
                /\ LOWERCASE_TABLE[k][1] <= n /\ n <= LOWERCASE_TABLE[k][2]
                /\ (n - LOWERCASE_TABLE[k][1]) % LOWERCASE_TABLE[k][3] = 0
    THEN <<char_of(n + LOWERCASE_TABLE[
               CHOOSE k \in 1..Len(LOWERCASE_TABLE) :
                   /\ LOWERCASE_TABLE[k][1] <= n /\ n <= LOWERCASE_TABLE[k][2]
                   /\ (n - LOWERCASE_TABLE[k][1]) % LOWERCASE_TABLE[k][3] = 0][4])>>
    ELSE <<char_of(n)>>

\* char::to_lowercase, as a string
to_lower(c) ==
    IF Len(c) = 1
    THEN IF c \in Range(Uppers)
         THEN <<Lowers[CHOOSE k \in 1..Len(Uppers) : Uppers[k] = c]>>
         ELSE <<c>>
    ELSE to_lower_of(code_point(c))

RECURSIVE case_ignorable_then_cased(_)
\* The first character that is not Case_Ignorable exists and is Cased.
case_ignorable_then_cased(s) ==
    IF s = <<>> THEN FALSE
    ELSE IF in_ranges(code_point(Head(s)), Case_Ignorable)
    THEN case_ignorable_then_cased(Tail(s))
    ELSE in_ranges(code_point(Head(s)), Cased)

\* The capital sigma at position k: the final form when a cased letter
\* comes before it and none after it.
map_uppercase_sigma(s, k) ==
    IF /\ case_ignorable_then_cased(Reversed(SubSeq(s, 1, k - 1)))
       /\ ~case_ignorable_then_cased(SubSeq(s, k + 1, Len(s)))
    THEN <<"U+03C2">>
    ELSE <<"U+03C3">>

lowercase_at(s, k) == IF s[k] = "U+03A3" THEN map_uppercase_sigma(s, k) ELSE to_lower(s[k])

\* str::to_lowercase
to_lowercase(s) == FlattenSeq([k \in 1..Len(s) |-> lowercase_at(s, k)])

RECURSIVE trim_start(_)
trim_start(s) ==
    IF s # <<>> /\ is_whitespace(Head(s)) THEN trim_start(Tail(s)) ELSE s

RECURSIVE trim_end(_)
trim_end(s) ==
    IF s # <<>> /\ is_whitespace(s[Len(s)])
    THEN trim_end(SubSeq(s, 1, Len(s) - 1))
    ELSE s

\* str::trim
trim(s) == trim_end(trim_start(s))

\* Does pat occur in s at position k ?
StartsAt(s, pat, k) ==
    /\ k + Len(pat) - 1 <= Len(s)
    /\ \A q \in 1..Len(pat) : s[k + q - 1] = pat[q]

\* The positions of s where pat occurs.
occurrences(s, pat) == { k \in 1..Len(s) : StartsAt(s, pat, k) }

\* One position of the scan of str::replace, st being <<the output so far,
\* the next position to read>>: a position inside an occurrence already
\* replaced is passed over.
replace_at(s, pat, rep, k, st) ==
    IF k < st[2] THEN st
    ELSE IF StartsAt(s, pat, k) THEN <<st[1] \o rep, k + Len(pat)>>
    ELSE <<st[1] \o <<s[k]>>, k + 1>>

RECURSIVE replace_from(_, _, _, _, _, _)
\* The scan over the positions lo to hi, the left half before the right;
\* there is nothing to do when an occurrence already replaced covers them.
replace_from(s, pat, rep, lo, hi, st) ==
    IF lo > hi \/ hi < st[2] THEN st
    ELSE IF lo = hi THEN replace_at(s, pat, rep, lo, st)
    ELSE replace_from(s, pat, rep, ((lo + hi) \div 2) + 1, hi,
                      replace_from(s, pat, rep, lo, (lo + hi) \div 2, st))

\* str::replace: every non-overlapping occurrence of pat, left to right.
replace(s, pat, rep) ==
    IF occurrences(s, pat) = {} THEN s
    ELSE replace_from(s, pat, rep, 1, Len(s), <<<<>>, 1>>)[1]

\* chars().filter(|c| c.is_alphanumeric()).collect()
filter_alphanumeric(s) == SelectSeq(s, is_alphanumeric)

(***************************************************************************)
(* Title normalisation.                                                    *)
(***************************************************************************)
RECURSIVE hex_run_end(_, _)
\* Last position of the run of hex digits that starts at k (k - 1 if none).
hex_run_end(s, k) ==
    IF k <= Len(s) /\ is_hex(s[k]) THEN hex_run_end(s, k + 1) ELSE k - 1

RECURSIVE from_str_radix(_, _)
\* u32::from_str_radix(digits, 16).  Every value above 0x10FFFF, and an
\* overflow of u32, is rejected by the caller alike; all of them are
\* represented by 0x110000.
from_str_radix(digits, acc) ==
    IF digits = <<>> THEN Some(acc)
    ELSE LET v == acc * 16 + hex_value(Head(digits))
         IN from_str_radix(Tail(digits), Min(v, 1114112))

\* char::from_u32: the character of every scalar value, none for a
\* surrogate and above U+10FFFF.
from_u32(n) ==
    IF (n >= 55296 /\ n <= 57343) \/ n > 1114111 THEN None
    ELSE Some(char_of(n))

\* The text an escape <U+digits> is replaced with: its character, or the
\* escape itself (caps[0]) when the digits name no character.
escape_text(code, whole) ==
    IF IsSome(code) /\ IsSome(from_u32(Unwrap(code))) THEN from_u32(Unwrap(code))
    ELSE whole

\* Is there a match of UNICODE_REGEX at k whose hex digits end at e ?
escape_at(s, k, e) ==
    /\ StartsAt(s, <<"<", "U", "+">>, k)
    /\ e >= k + 3
    /\ e + 1 <= Len(s)
    /\ s[e + 1] = ">"

\* One position of UNICODE_REGEX.replace_all, st being <<the output so far,
\* the next position to read>> and e the end of the run of hex digits that
\* starts at k + 3.
convert_unicode_at(s, k, e, st) ==
    IF k < st[2] THEN st
    ELSE IF escape_at(s, k, e)
    THEN <<st[1] \o escape_text(from_str_radix(SubSeq(s, k + 3, e), 0), SubSeq(s, k, e + 1)), e + 2>>
    ELSE <<st[1] \o <<s[k]>>, k + 1>>

RECURSIVE convert_unicode_from(_, _, _, _)
\* The scan over the positions lo to hi, the left half before the right;
\* there is nothing to do when an escape already replaced covers them.
convert_unicode_from(s, lo, hi, st) ==
    IF lo > hi \/ hi < st[2] THEN st
    ELSE IF lo = hi THEN convert_unicode_at(s, lo, hex_run_end(s, lo + 3), st)
    ELSE convert_unicode_from(s, ((lo + hi) \div 2) + 1, hi,
                              convert_unicode_from(s, lo, (lo + hi) \div 2, st))

convert_unicode_string(input) ==
    IF occurrences(input, <<"<", "U", "+">>) = {} THEN input
    ELSE convert_unicode_from(input, 1, Len(input), <<<<>>, 1>>)[1]

HTML_REPLACEMENTS ==
    << << <<"&", "l", "t", ";">>, <<"<">> >>,
       << <<"&", "g", "t", ";">>, <<">">> >>,
       << <<"<", "s", "u", "p", ">">>, <<>> >>,
       << <<"<", "/", "s", "u", "p", ">">>, <<>> >>,
       << <<"<", "s", "u", "b", ">">>, <<>> >>,
       << <<"<", "/", "s", "u", "b", ">">>, <<>> >>,
       << <<"<", "i", "n", "f", ">">>, <<>> >>,
       << <<"<", "/", "i", "n", "f", ">">>, <<>> >>,
       << <<"b", "e", "t", "a">>, <<"b">> >>,
       << <<"a", "l", "p", "h", "a">>, <<"a">> >>,
       << <<"U+03B1">>, <<"a">> >>,
       << <<"U+00DF">>, <<"b">> >>,
       << <<"U+03B3">>, <<"g">> >> >>

RECURSIVE apply_replacements(_, _)
apply_replacements(s, k) ==
    IF k > Len(HTML_REPLACEMENTS) THEN s
    ELSE apply_replacements(
             replace(s, HTML_REPLACEMENTS[k][1], HTML_REPLACEMENTS[k][2]), k + 1)

\* normalize_string without its check for the empty string.
normalize_string_unchecked(string) ==
    Some(filter_alphanumeric(apply_replacements(to_lowercase(trim(string)), 1)))

\* Option<String>: None for the empty string, else the lowercased, trimmed
\* string with the replacements applied and only alphanumerics kept.
normalize_string(string) ==
    IF string = <<>> THEN None
    ELSE Some(filter_alphanumeric(apply_replacements(to_lowercase(trim(string)), 1)))

(***************************************************************************)
(* Journal, volume and ISSN normalisation.                                 *)
(***************************************************************************)
ConferenceMarker == <<".", " ", "C", "o", "n", "f", "e", "r", "e", "n", "c", "e">>

\* name.split(pat).next(): the text before the first occurrence of pat.
split_first(s, pat) ==
    IF occurrences(s, pat) = {} THEN s
    ELSE SubSeq(s, 1, Least(occurrences(s, pat)) - 1)

format_journal_name(full_name) ==
    IF ~IsSome(full_name) THEN None
    ELSE Some(filter_alphanumeric(to_lowercase(trim(
             split_first(Unwrap(full_name), ConferenceMarker)))))

RECURSIVE skip_while_not_numeric(_)
skip_while_not_numeric(s) ==
    IF s # <<>> /\ ~is_numeric(Head(s)) THEN skip_while_not_numeric(Tail(s)) ELSE s

RECURSIVE take_while_numeric(_)
take_while_numeric(s) ==
    IF s # <<>> /\ is_numeric(Head(s))
    THEN <<Head(s)>> \o take_while_numeric(Tail(s))
    ELSE <<>>

\* The first run of digits of the volume, or the empty string.
normalize_volume(volume) ==
    IF volume = <<>> THEN <<>>
    ELSE take_while_numeric(skip_while_not_numeric(volume))

is_issn_char(c) == is_ascii_digit(c) \/ c = "-" \/ c = "X"

is_issn_digit(c) == is_ascii_digit(c) \/ c = "X"

\* issn_shape without the guard on the position of the hyphen.
issn_shape_any_hyphen(clean_issn, digits) ==
    IF Len(clean_issn) = 9 /\ Len(digits) = 8
    THEN Some(clean_issn)
    ELSE IF Len(clean_issn) = 8 /\ Len(digits) = 8
    THEN Some(SubSeq(digits, 1, 4) \o <<"-">> \o SubSeq(digits, 5, 8))
    ELSE None

\* match (clean_issn.len(), digits.len())
issn_shape(clean_issn, digits) ==
    IF Len(clean_issn) = 9 /\ Len(digits) = 8 /\ clean_issn[5] = "-"
    THEN Some(clean_issn)
    ELSE IF Len(clean_issn) = 8 /\ Len(digits) = 8
    THEN Some(SubSeq(digits, 1, 4) \o <<"-">> \o SubSeq(digits, 5, 8))
    ELSE None

\* issn_str with the three annotations removed, every character other than
\* a digit, a hyphen or X removed, and trimmed.
clean_issn_of(issn_str) ==
    trim(SelectSeq(
        replace(replace(replace(trim(issn_str),
            <<"(", "E", "l", "e", "c", "t", "r", "o", "n", "i", "c", ")">>, <<>>),
            <<"(", "L", "i", "n", "k", "i", "n", "g", ")">>, <<>>),
            <<"(", "P", "r", "i", "n", "t", ")">>, <<>>),
        is_issn_char))

issn_checked(clean_issn) == issn_shape(clean_issn, SelectSeq(clean_issn, is_issn_digit))

format_issn(issn_str) == issn_checked(clean_issn_of(issn_str))

\* c.issn.iter().filter_map(format_issn).collect()
normalize_issns(issn) ==
    LET opts == [k \in 1..Len(issn) |-> format_issn(issn[k])]
    IN FlattenSeq(opts)

match_issns(list1, list2) ==
    \E k1 \in 1..Len(list1) : \E k2 \in 1..Len(list2) : list1[k1] = list2[k2]

\* journals_match by equality of the Options: two absent fields match.
journals_match_option_eq(journal1, journal_abbr1, journal2, journal_abbr2) ==
    \/ journal1 = journal2
    \/ journal_abbr1 = journal_abbr2
    \/ journal1 = journal_abbr2
    \/ journal_abbr1 = journal2

journals_match(journal1, journal_abbr1, journal2, journal_abbr2) ==
    \/ (IsSome(journal1) /\ IsSome(journal2) /\ Unwrap(journal1) = Unwrap(journal2))
    \/ (IsSome(journal_abbr1) /\ IsSome(journal_abbr2)
            /\ Unwrap(journal_abbr1) = Unwrap(journal_abbr2))
    \/ (IsSome(journal1) /\ IsSome(journal_abbr2)
            /\ Unwrap(journal1) = Unwrap(journal_abbr2))
    \/ (IsSome(journal_abbr1) /\ IsSome(journal2)
            /\ Unwrap(journal_abbr1) = Unwrap(journal2))

(***************************************************************************)
(* f64 arithmetic.  A natural number of any size is the sequence of its    *)
(* digits in base 2^15, lowest first, without leading zeros; a finite      *)
(* non-negative f64 is <<m, e>>, standing for m * 2^e, with m a natural    *)
(* number of exactly 53 bits, or <<<<>>, 0>> for 0.0.  Every operation     *)
(* rounds its exact result to the nearest such value, ties to even, as     *)
(* IEEE 754 does; the values of the similarity computations are far from   *)
(* the subnormal range and from overflow.                                  *)
(***************************************************************************)
DigitBase == 32768

Pow2 == [k \in 0..15 |-> 2 ^ k]

RECURSIVE nat_digits(_)
\* The digits of a machine integer.
nat_digits(n) == IF n = 0 THEN <<>> ELSE <<n % DigitBase>> \o nat_digits(n \div DigitBase)

RECURSIVE nat_trim(_)
nat_trim(x) ==
    IF x # <<>> /\ x[Len(x)] = 0 THEN nat_trim(SubSeq(x, 1, Len(x) - 1)) ELSE x

RECURSIVE nat_add_from(_, _, _, _)
\* The digits k and up of x + y, with the carry into digit k.
nat_add_from(x, y, k, carry) ==
    IF k > Len(x) /\ k > Len(y) THEN nat_digits(carry)
    ELSE <<((IF k <= Len(x) THEN x[k] ELSE 0) + (IF k <= Len(y) THEN y[k] ELSE 0) + carry) % DigitBase>>
           \o nat_add_from(x, y, k + 1,
                  ((IF k <= Len(x) THEN x[k] ELSE 0) + (IF k <= Len(y) THEN y[k] ELSE 0) + carry) \div DigitBase)

\* x + y
nat_add(x, y) == nat_add_from(x, y, 1, 0)

RECURSIVE nat_sub_from(_, _, _, _)
nat_sub_from(x, y, k, borrow) ==
    IF k > Len(x) THEN <<>>
    ELSE <<(x[k] - (IF k <= Len(y) THEN y[k] ELSE 0) - borrow) % DigitBase>>
           \o nat_sub_from(x, y, k + 1,
                  IF x[k] - (IF k <= Len(y) THEN y[k] ELSE 0) - borrow < 0 THEN 1 ELSE 0)

\* x - y for x >= y
nat_sub(x, y) == nat_trim(nat_sub_from(x, y, 1, 0))

RECURSIVE nat_mul_small(_, _, _, _)
\* The digits k and up of x * n for 0 <= n <= 2^15, with the carry into
\* digit k.
nat_mul_small(x, n, k, carry) ==
    IF k > Len(x) THEN nat_digits(carry)
    ELSE <<(x[k] * n + carry) % DigitBase>>
           \o nat_mul_small(x, n, k + 1, (x[k] * n + carry) \div DigitBase)

RECURSIVE nat_mul_add(_, _, _, _, _)
\* The digits k and up of x * n + acc for 0 <= n < 2^15, with the carry
\* into digit k.
nat_mul_add(x, n, acc, k, carry) ==
    IF k > Len(x) /\ k > Len(acc) THEN nat_digits(carry)
    ELSE <<((IF k <= Len(x) THEN x[k] * n ELSE 0) + (IF k <= Len(acc) THEN acc[k] ELSE 0) + carry) % DigitBase>>
           \o nat_mul_add(x, n, acc, k + 1,
                  ((IF k <= Len(x) THEN x[k] * n ELSE 0) + (IF k <= Len(acc) THEN acc[k] ELSE 0) + carry) \div DigitBase)

RECURSIVE nat_mul_from(_, _, _)
\* x * (the digits k and up of y)
nat_mul_from(x, y, k) ==
    IF k > Len(y) THEN <<>>
    ELSE IF y[k] = 0 THEN <<0>> \o nat_mul_from(x, y, k + 1)
    ELSE nat_mul_add(x, y[k], <<0>> \o nat_mul_from(x, y, k + 1), 1, 0)

\* x * y
nat_mul(x, y) == IF x = <<>> \/ y = <<>> THEN <<>> ELSE nat_trim(nat_mul_from(x, y, 1))

RECURSIVE nat_divmod_small(_, _, _, _)
\* <<x div d, x mod d>> for 0 < d <= 2^16, from the highest digit k down;
\* acc is <<the digits of the quotient found so far, the remainder so far>>.
nat_divmod_small(x, d, k, acc) ==
    IF k = 0 THEN <<nat_trim(acc[1]), acc[2]>>
    ELSE nat_divmod_small(x, d, k - 1,
             << <<(acc[2] * DigitBase + x[k]) \div d>> \o acc[1],
                (acc[2] * DigitBase + x[k]) % d >>)

nat_div(x, d) == nat_divmod_small(x, d, Len(x), <<<<>>, 0>>)

RECURSIVE bits_of(_)
bits_of(n) == IF n = 0 THEN 0 ELSE 1 + bits_of(n \div 2)

bit_length(x) == IF x = <<>> THEN 0 ELSE 15 * (Len(x) - 1) + bits_of(x[Len(x)])

\* x * 2^k
nat_shl(x, k) ==
    IF x = <<>> \/ k = 0 THEN x
    ELSE [i \in 1..(k \div 15) |-> 0] \o nat_mul_small(x, Pow2[k % 15], 1, 0)

RECURSIVE nat_less_from(_, _, _)
nat_less_from(x, y, k) ==
    IF k = 0 THEN FALSE
    ELSE IF x[k] # y[k] THEN x[k] < y[k]
    ELSE nat_less_from(x, y, k - 1)

\* x < y
nat_less(x, y) ==
    IF Len(x) # Len(y) THEN Len(x) < Len(y) ELSE nat_less_from(x, y, Len(x))

F64_ZERO == <<<<>>, 0>>

\* 2^52 and 2^53
TWO_52 == <<0, 0, 0, 128>>

TWO_53 == <<0, 0, 0, 256>>

\* q * 2^e, or the next f64 above it.
f64_round_up(q, e, up) ==
    IF ~up THEN <<q, e>>
    ELSE IF nat_add(q, <<1>>) = TWO_53 THEN <<TWO_52, e + 1>>
    ELSE <<nat_add(q, <<1>>), e>>

\* Round to nearest, ties to even: qr is <<q, r>>, the 53 bits kept and
\* the highest bits r of what is dropped, with half their halfway value
\* and rest telling whether anything lower is dropped with them.
f64_round_half(qr, e, half, rest) ==
    f64_round_up(qr[1], e, qr[2] > half \/ (qr[2] = half /\ (rest \/ qr[1][1] % 2 = 1)))

\* n * 2^e with the lowest w digits and b more bits dropped, 53 bits being
\* left; sticky tells whether the exact value is above n * 2^e.
f64_round_digits(n, e, w, b, sticky) ==
    IF b = 0
    THEN f64_round_half(<<SubSeq(n, w + 1, Len(n)), n[w]>>, e + 15 * w, Pow2[14],
                        sticky \/ \E k \in 1..(w - 1) : n[k] # 0)
    ELSE f64_round_half(nat_div(SubSeq(n, w + 1, Len(n)), Pow2[b]), e + 15 * w + b, Pow2[b - 1],
                        sticky \/ \E k \in 1..w : n[k] # 0)

f64_round_bits(n, e, bits, sticky) ==
    IF bits <= 53 THEN <<nat_shl(n, 53 - bits), e - (53 - bits)>>
    ELSE f64_round_digits(n, e, (bits - 53) \div 15, (bits - 53) % 15, sticky)

\* The f64 nearest to the exact value, which is n * 2^e or, with sticky,
\* between n * 2^e and (n + 1) * 2^e; sticky comes with an n of more than
\* 53 bits.
f64_round(n, e, sticky) ==
    IF n = <<>> THEN F64_ZERO ELSE f64_round_bits(n, e, bit_length(n), sticky)

\* n as f64
f64_from(n) == f64_round(nat_digits(n), 0, FALSE)

f64_round_quotient(qr, e) == f64_round(qr[1], e, qr[2] # 0)

\* x / d for an f64 x and an integer 0 < d <= 2^16: the quotient of the
\* mantissa with 30 more bits, and whether a remainder is left.
f64_div(x, d) == f64_round_quotient(nat_div(<<0, 0>> \o x[1], d), x[2] - 30)

\* x + y with e the lower of the two exponents
f64_add_aligned(x, y, e) ==
    f64_round(nat_add(nat_shl(x[1], x[2] - e), nat_shl(y[1], y[2] - e)), e, FALSE)

\* x + y
f64_add(x, y) ==
    IF x[1] = <<>> THEN y
    ELSE IF y[1] = <<>> THEN x
    ELSE f64_add_aligned(x, y, IF x[2] <= y[2] THEN x[2] ELSE y[2])

\* x < y
f64_less(x, y) ==
    IF y[1] = <<>> THEN FALSE
    ELSE IF x[1] = <<>> THEN TRUE
    ELSE IF x[2] # y[2] THEN x[2] < y[2]
    ELSE nat_less(x[1], y[1])

f64_sub_aligned(x, y, e) ==
    f64_round(nat_sub(nat_shl(x[1], x[2] - e), nat_shl(y[1], y[2] - e)), e, FALSE)

\* x - y for x >= y
f64_sub(x, y) ==
    IF y[1] = <<>> THEN x
    ELSE f64_sub_aligned(x, y, IF x[2] <= y[2] THEN x[2] ELSE y[2])

\* x * y
f64_mul(x, y) == f64_round(nat_mul(x[1], y[1]), x[2] + y[2], FALSE)

\* The f64 of the decimal literal num / den.
f64_literal(num, den) == f64_div(f64_from(num), den)

F64_ONE == f64_from(1)

\* The f64 of the literals 0.00, 0.01, ..., 1.00.
HUNDREDTHS == [pct \in 0..100 |-> f64_literal(pct, 100)]

(***************************************************************************)
(* strsim::jaro and strsim::jaro_winkler, in f64.                          *)
(***************************************************************************)
\* max(a_len, b_len) / 2, less one unless it is zero
search_range(a, b) ==
    IF Max(Len(a), Len(b)) \div 2 >= 1 THEN (Max(Len(a), Len(b)) \div 2) - 1 ELSE 0

\* flags is <<a_flags, b_flags, matches>>: the character i of a and the
\* first of the candidates cand of b are flagged, if there is a candidate.
jaro_flag(i, cand, flags) ==
    IF cand = {} THEN flags
    ELSE <<[flags[1] EXCEPT ![i] = TRUE], [flags[2] EXCEPT ![Least(cand)] = TRUE], flags[3] + 1>>

\* The inner loop for the character i of a: the candidates are the
\* unflagged characters of b equal to it inside the search window.
jaro_match(a, b, i, range, flags) ==
    jaro_flag(i, { j \in Max(1, i - range)..Min(Len(b), i + range) :
                      b[j] = a[i] /\ ~flags[2][j] }, flags)

RECURSIVE jaro_flags(_, _, _, _, _)
\* The matching pass over the characters lo to hi of a, the left half
\* before the right; there is nothing to find once every character of b is
\* flagged.
jaro_flags(a, b, lo, hi, flags) ==
    IF lo > hi \/ flags[3] = Len(b) THEN flags
    ELSE IF lo = hi THEN jaro_match(a, b, lo, search_range(a, b), flags)
    ELSE jaro_flags(a, b, ((lo + hi) \div 2) + 1, hi,
                    jaro_flags(a, b, lo, (lo + hi) \div 2, flags))

is_flagged(p) == p[1]

Seconds(ps) == [k \in 1..Len(ps) |-> ps[k][2]]

\* The flagged characters of s, in order.
Pick(s, flags) == Seconds(SelectSeq([k \in 1..Len(s) |-> <<flags[k], s[k]>>], is_flagged))

\* The quotients n as f64 / d as f64 for the lengths up to 40, worked out
\* once.
RATIOS == [d \in 1..40 |-> [n \in 0..d |-> f64_div(f64_from(n), d)]]

\* n as f64 / d as f64 for 0 <= n <= d
ratio(n, d) == IF d \in DOMAIN RATIOS THEN RATIOS[d][n] ELSE f64_div(f64_from(n), d)

\* ((matches / a_len) + (matches / b_len)
\*    + ((matches - transpositions) / matches)) / 3.0
jaro_sum(matches, transpositions, a_len, b_len) ==
    f64_div(f64_add(f64_add(ratio(matches, a_len), ratio(matches, b_len)),
                    ratio(matches - transpositions, matches)),
            3)

\* The similarity from the number of matches and the flagged characters
\* ma of a and mb of b, each in its own order: transpositions are the places
\* where they differ, halved.
jaro_value(la, lb, matches, ma, mb) ==
    IF matches = 0 THEN F64_ZERO
    ELSE jaro_sum(matches, Cardinality({ k \in 1..matches : ma[k] # mb[k] }) \div 2, la, lb)

jaro_of_flags(a, b, flags) == jaro_value(Len(a), Len(b), flags[3], Pick(a, flags[1]), Pick(b, flags[2]))

jaro(a, b) ==
    IF Len(a) = 0 /\ Len(b) = 0 THEN F64_ONE
    ELSE IF Len(a) = 0 \/ Len(b) = 0 THEN F64_ZERO
    ELSE jaro_of_flags(a, b, jaro_flags(a, b, 1, Len(a),
                                        <<[k \in 1..Len(a) |-> FALSE], [k \in 1..Len(b) |-> FALSE], 0>>))

RECURSIVE common_prefix(_, _, _)
\* a.take(4).zip(b).take_while(equal).count()
common_prefix(a, b, k) ==
    IF k <= 4 /\ k <= Len(a) /\ k <= Len(b) /\ a[k] = b[k]
    THEN common_prefix(a, b, k + 1)
    ELSE k - 1

\* 0.1 * prefix_length as f64 for the prefix lengths 0 to 4, worked out once.
PREFIX_WEIGHTS == [p \in 0..4 |-> f64_mul(HUNDREDTHS[10], f64_from(p))]

\* if sim > 0.7 { sim + 0.1 * prefix_length as f64 * (1.0 - sim) } else { sim }
winkler_boost(sim, prefix_length) ==
    IF f64_less(HUNDREDTHS[70], sim)
    THEN f64_add(sim, f64_mul(PREFIX_WEIGHTS[prefix_length], f64_sub(F64_ONE, sim)))
    ELSE sim

jaro_winkler(a, b) == winkler_boost(jaro(a, b), common_prefix(a, b, 1))

\* sim >= the literal 0.pct
at_least(sim, pct) == ~f64_less(sim, HUNDREDTHS[pct])

DOI_TITLE_SIMILARITY_THRESHOLD == 85

NO_DOI_TITLE_SIMILARITY_THRESHOLD == 93

HIGH_TITLE_SIMILARITY == 99

(***************************************************************************)
(* Citations and the pairwise matcher.                                     *)
(***************************************************************************)
\* The fields of Citation the deduplicator reads.  `date` holds the year of
\* the Date structure when one is present.
Citation(title, doi, date, year, abstract_text, journal, journal_abbr, volume, pages, issn) ==
    [title |-> title, doi |-> doi, date |-> date, year |-> year,
     abstract_text |-> abstract_text, journal |-> journal,
     journal_abbr |-> journal_abbr, volume |-> volume, pages |-> pages,
     issn |-> issn]

\* citation.date.as_ref().map(|d| d.year).or(citation.year)
get_citation_year(citation) ==
    IF IsSome(citation.date) THEN citation.date ELSE citation.year

\* PreprocessedCitation of the citation c at position `original`.
PreprocessedCitation(c, original, normalized_title) ==
    [original |-> original,
     normalized_title |-> normalized_title,
     normalized_journal |-> format_journal_name(c.journal),
     normalized_journal_abbr |-> format_journal_name(c.journal_abbr),
     normalized_volume |->
         IF IsSome(c.volume) THEN normalize_volume(Unwrap(c.volume)) ELSE <<>>,
     normalized_issn |-> normalize_issns(c.issn)]

\* normalize_string(..).ok_or_else(..)?: None stands for the error.
preprocess_title(c, original, normalized_title) ==
    IF ~IsSome(normalized_title) THEN None
    ELSE Some(PreprocessedCitation(c, original, Unwrap(normalized_title)))

\* Option<PreprocessedCitation> of the citation at position `original` of
\* cits: None when the title cannot be normalised.
preprocess_one(cits, original) ==
    preprocess_title(cits[original], original,
                     normalize_string(convert_unicode_string(cits[original].title)))

volumes_match(current, other) ==
    /\ current.normalized_volume # <<>>
    /\ other.normalized_volume # <<>>
    /\ current.normalized_volume = other.normalized_volume

\* pages_match where absent pages of the current record match any pages.
pages_match_absent_current(c1, c2) ==
    IsSome(c2.pages) /\ (~IsSome(c1.pages) \/ c1.pages = c2.pages)

pages_match(c1, c2) ==
    IsSome(c1.pages) /\ IsSome(c2.pages) /\ c1.pages = c2.pages

years_match(c1, c2) == get_citation_year(c1) = get_citation_year(c2)

\* both_have_doi without the guard on empty strings.
both_have_doi_present(c1, c2) == IsSome(c1.doi) /\ IsSome(c2.doi)

\* The (Some(doi1), Some(doi2)) if !doi1.is_empty() && !doi2.is_empty() arm.
both_have_doi(c1, c2) ==
    /\ IsSome(c1.doi) /\ IsSome(c2.doi)
    /\ Unwrap(c1.doi) # <<>> /\ Unwrap(c2.doi) # <<>>

\* with_doi_rule with the year demanded in its first alternative too.
with_doi_rule_same_year(doi_eq, title_similarity, journal_match, issns_match, vol_match, pg_match, yr_match) ==
    \/ (doi_eq /\ at_least(title_similarity, DOI_TITLE_SIMILARITY_THRESHOLD)
            /\ (journal_match \/ issns_match) /\ yr_match)
    \/ (doi_eq /\ at_least(title_similarity, HIGH_TITLE_SIMILARITY)
            /\ (vol_match \/ pg_match))
    \/ (at_least(title_similarity, HIGH_TITLE_SIMILARITY) /\ yr_match
            /\ (vol_match \/ pg_match) /\ (journal_match \/ issns_match))

\* with_doi_rule without its third alternative.
with_doi_rule_equal_doi_only(doi_eq, title_similarity, journal_match, issns_match, vol_match, pg_match, yr_match) ==
    \/ (doi_eq /\ at_least(title_similarity, DOI_TITLE_SIMILARITY_THRESHOLD)
            /\ (journal_match \/ issns_match))
    \/ (doi_eq /\ at_least(title_similarity, HIGH_TITLE_SIMILARITY)
            /\ (vol_match \/ pg_match))

\* with_doi_rule with equal DOIs accepted on their own.
with_doi_rule_doi_alone(doi_eq, title_similarity, journal_match, issns_match, vol_match, pg_match, yr_match) ==
    \/ doi_eq
    \/ (at_least(title_similarity, HIGH_TITLE_SIMILARITY) /\ yr_match
            /\ (vol_match \/ pg_match) /\ (journal_match \/ issns_match))

\* with_doi_rule whose third alternative asks for volume and pages both.
with_doi_rule_fallback_both(doi_eq, title_similarity, journal_match, issns_match, vol_match, pg_match, yr_match) ==
    \/ (doi_eq /\ at_least(title_similarity, DOI_TITLE_SIMILARITY_THRESHOLD)
            /\ (journal_match \/ issns_match))
    \/ (doi_eq /\ at_least(title_similarity, HIGH_TITLE_SIMILARITY)
            /\ (vol_match \/ pg_match))
    \/ (at_least(title_similarity, HIGH_TITLE_SIMILARITY) /\ yr_match
            /\ (vol_match /\ pg_match) /\ (journal_match \/ issns_match))

\* The arm taken when both records have a non-empty DOI.
with_doi_rule(doi_eq, title_similarity, journal_match, issns_match, vol_match, pg_match, yr_match) ==
    \/ (doi_eq /\ at_least(title_similarity, DOI_TITLE_SIMILARITY_THRESHOLD)
            /\ (journal_match \/ issns_match))
    \/ (doi_eq /\ at_least(title_similarity, HIGH_TITLE_SIMILARITY)
            /\ (vol_match \/ pg_match))
    \/ (at_least(title_similarity, HIGH_TITLE_SIMILARITY) /\ yr_match
            /\ (vol_match \/ pg_match) /\ (journal_match \/ issns_match))

\* without_doi_rule with "or" between volume and pages in its second
\* alternative.
without_doi_rule_either(title_similarity, journal_match, issns_match, vol_match, pg_match, yr_match) ==
    \/ (at_least(title_similarity, NO_DOI_TITLE_SIMILARITY_THRESHOLD)
            /\ (vol_match \/ pg_match) /\ (journal_match \/ issns_match))
    \/ (at_least(title_similarity, HIGH_TITLE_SIMILARITY) /\ yr_match
            /\ (vol_match \/ pg_match))

\* The arm taken otherwise.
without_doi_rule(title_similarity, journal_match, issns_match, vol_match, pg_match, yr_match) ==
    \/ (at_least(title_similarity, NO_DOI_TITLE_SIMILARITY_THRESHOLD)
            /\ (vol_match \/ pg_match) /\ (journal_match \/ issns_match))
    \/ (at_least(title_similarity, HIGH_TITLE_SIMILARITY) /\ yr_match
            /\ (vol_match /\ pg_match))

\* The match on the two DOIs, given the field comparisons of the pair.
decide(c1, c2, current, other, journal_match, issns_match, vol_match) ==
    IF both_have_doi(c1, c2)
    THEN with_doi_rule(c1.doi = c2.doi,
                       jaro(current.normalized_title, other.normalized_title),
                       journal_match, issns_match, vol_match, pages_match(c1, c2),
                       years_match(c1, c2))
    ELSE without_doi_rule(jaro_winkler(current.normalized_title,
                                       other.normalized_title),
                          journal_match, issns_match, vol_match, pages_match(c1, c2),
                          years_match(c1, c2))

\* is_duplicate of the inner scan, for two preprocessed citations of cits.
is_duplicate(cits, current, other) ==
    decide(cits[current.original], cits[other.original], current, other,
           journals_match(current.normalized_journal, current.normalized_journal_abbr,
                          other.normalized_journal, other.normalized_journal_abbr),
           match_issns(current.normalized_issn, other.normalized_issn),
           volumes_match(current, other))

(***************************************************************************)
(* Canonical selection.                                                    *)
(***************************************************************************)
has_doi(c) == IsSome(c.doi) /\ Unwrap(c.doi) # <<>>

\* match citations_with_abstract.len()
select_among(cits, group, citations_with_abstract) ==
    IF Len(citations_with_abstract) = 0 THEN group[1]
    ELSE IF Len(citations_with_abstract) = 1 THEN citations_with_abstract[1]
    ELSE IF \E k \in 1..Len(citations_with_abstract) :
                has_doi(cits[citations_with_abstract[k]])
    THEN citations_with_abstract[
             CHOOSE k \in 1..Len(citations_with_abstract) :
                 /\ has_doi(cits[citations_with_abstract[k]])
                 /\ \A q \in 1..(k - 1) : ~has_doi(cits[citations_with_abstract[q]])]
    ELSE citations_with_abstract[1]

\* group: the members of the group as positions of cits, in group order.
select_unique_citation(cits, group) ==
    IF Len(group) = 1 THEN group[1]
    ELSE select_among(cits, group,
                      SelectSeq(group, LAMBDA g : IsSome(cits[g].abstract_text)))

\* for preferred_source in source_preferences, for (citation, idx) in the
\* group: the first member whose source_map entry is the preference.
\* Does the member at place k of the group carry the label pref ?
label_is(citation_indices, source_map, k, pref) ==
    /\ k <= Len(citation_indices)
    /\ citation_indices[k] \in DOMAIN source_map
    /\ source_map[citation_indices[k]] = Some(pref)

\* first_preferred with the two loops exchanged: the first member that
\* carries any of the preferred labels.
first_preferred_by_member(group, citation_indices, source_map, prefs, p) ==
    IF \E k \in 1..Len(group) : \E q \in 1..Len(prefs) :
           label_is(citation_indices, source_map, k, prefs[q])
    THEN Some(group[CHOOSE k \in 1..Len(group) :
                 /\ \E q \in 1..Len(prefs) :
                        label_is(citation_indices, source_map, k, prefs[q])
                 /\ \A k2 \in 1..(k - 1) : \A q \in 1..Len(prefs) :
                        ~label_is(citation_indices, source_map, k2, prefs[q])])
    ELSE None

RECURSIVE first_preferred(_, _, _, _, _)
first_preferred(group, citation_indices, source_map, prefs, p) ==
    IF p > Len(prefs) THEN None
    ELSE IF \E k \in 1..Len(group) : label_is(citation_indices, source_map, k, prefs[p])
    THEN Some(group[CHOOSE k \in 1..Len(group) :
                 /\ label_is(citation_indices, source_map, k, prefs[p])
                 /\ \A q \in 1..(k - 1) :
                        ~label_is(citation_indices, source_map, q, prefs[p])])
    ELSE first_preferred(group, citation_indices, source_map, prefs, p + 1)

\* The preferred member when there is one, else the standard selection.
preferred_or_standard(cits, group, preferred) ==
    IF IsSome(preferred) THEN Unwrap(preferred)
    ELSE select_unique_citation(cits, group)

select_unique_citation_with_sources(cits, cfg, group, citation_indices, source_map) ==
    IF Len(group) = 1 THEN group[1]
    ELSE IF cfg.source_preferences # <<>>
    THEN preferred_or_standard(cits, group,
             first_preferred(group, citation_indices, source_map,
                             cfg.source_preferences, 1))
    ELSE select_unique_citation(cits, group)

(***************************************************************************)
(* Clustering of one bucket.  A bucket is a sequence of positions of cits. *)
(***************************************************************************)
\* HashMap<*const Citation, usize>: the place of each reference in the bucket.
citation_to_index(bucket) ==
    [ptr \in Range(bucket) |-> CHOOSE i \in 1..Len(bucket) : bucket[i] = ptr]

\* scan_matches that also takes the records matching a match of the seed.
scan_matches_transitive(cits, preprocessed, i, processed_indices) ==
    SortedSeq({ j \in 1..Len(preprocessed) :
                  /\ j # i
                  /\ j \notin processed_indices
                  /\ \/ is_duplicate(cits, preprocessed[i], preprocessed[j])
                     \/ \E m \in 1..Len(preprocessed) :
                            /\ m # i /\ m # j /\ m \notin processed_indices
                            /\ is_duplicate(cits, preprocessed[i], preprocessed[m])
                            /\ is_duplicate(cits, preprocessed[m], preprocessed[j]) })

\* scan_matches without the test for records already claimed.
scan_matches_claimed_too(cits, preprocessed, i, processed_indices) ==
    SortedSeq({ j \in 1..Len(preprocessed) :
                  /\ j # i
                  /\ is_duplicate(cits, preprocessed[i], preprocessed[j]) })

\* The indices the inner scan of seed i adds to the group, in scan order.
scan_matches(cits, preprocessed, i, processed_indices) ==
    SortedSeq({ j \in 1..Len(preprocessed) :
                  /\ j # i
                  /\ j \notin processed_indices
                  /\ is_duplicate(cits, preprocessed[i], preprocessed[j]) })

\* The members of a group as references, from their indices in the bucket.
group_refs(preprocessed, group_indices) ==
    [k \in 1..Len(group_indices) |-> preprocessed[group_indices[k]].original]

\* original_indices: what citation_to_index holds for each member.
original_indices_of(bucket, preprocessed, group_indices) ==
    [k \in 1..Len(group_indices) |->
        citation_to_index(bucket)[preprocessed[group_indices[k]].original]]

\* DuplicateGroup without the filter that leaves unique out of duplicates.
DuplicateGroup_unfiltered(group_citations, unique) ==
    [unique |-> unique, duplicates |-> group_citations, members |-> group_citations]

\* DuplicateGroup with the seed, not unique, left out of duplicates.
DuplicateGroup_seed_left_out(group_citations, unique) ==
    [unique |-> unique, duplicates |-> Tail(group_citations), members |-> group_citations]

\* DuplicateGroup { unique, duplicates }: the members other than unique
\* (by pointer), in group order.  `members` is a history field: it records
\* group_citations, which the code drops, for the statement of properties.
DuplicateGroup(group_citations, unique) ==
    [unique |-> unique,
     duplicates |-> SelectSeq(group_citations, LAMBDA c : c # unique),
     members |-> group_citations]

\* The group emitted for seed i whose scan found `found`.
make_group(cits, cfg, bucket, preprocessed, i, found, source_map) ==
    IF found = <<>>
    THEN [unique |-> preprocessed[i].original, duplicates |-> <<>>,
          members |-> <<preprocessed[i].original>>]
    ELSE DuplicateGroup(
             group_refs(preprocessed, <<i>> \o found),
             select_unique_citation_with_sources(
                 cits, cfg, group_refs(preprocessed, <<i>> \o found),
                 original_indices_of(bucket, preprocessed, <<i>> \o found),
                 source_map))

\* claimed_after without the insertion of the matched indices.
claimed_after_seed_only(processed_indices, i, found) ==
    IF found = <<>> THEN processed_indices ELSE processed_indices \cup {i}

\* processed_indices after seed i: a seed with matches is claimed with them.
claimed_after(processed_indices, i, found) ==
    IF found = <<>> THEN processed_indices
    ELSE processed_indices \cup Range(found) \cup {i}

RECURSIVE cluster(_, _, _, _, _, _, _)
RECURSIVE cluster_seed(_, _, _, _, _, _, _, _)
\* cluster_seed without the group of a seed that matched nothing.
cluster_seed_matched_only(cits, cfg, bucket, preprocessed, i, processed_indices, source_map, found) ==
    (IF found = <<>> THEN <<>>
     ELSE <<make_group(cits, cfg, bucket, preprocessed, i, found, source_map)>>)
    \o cluster(cits, cfg, bucket, preprocessed, i + 1,
               claimed_after(processed_indices, i, found), source_map)

\* Seed i, whose inner scan found `found`, and the seeds after it.
cluster_seed(cits, cfg, bucket, preprocessed, i, processed_indices, source_map, found) ==
    <<make_group(cits, cfg, bucket, preprocessed, i, found, source_map)>>
    \o cluster(cits, cfg, bucket, preprocessed, i + 1,
               claimed_after(processed_indices, i, found), source_map)

\* The outer loop for i in 0..preprocessed.len(), from seed i on.
cluster(cits, cfg, bucket, preprocessed, i, processed_indices, source_map) ==
    IF i > Len(preprocessed) THEN <<>>
    ELSE IF i \in processed_indices
    THEN cluster(cits, cfg, bucket, preprocessed, i + 1, processed_indices, source_map)
    ELSE cluster_seed(cits, cfg, bucket, preprocessed, i, processed_indices, source_map,
                      scan_matches(cits, preprocessed, i, processed_indices))

Ok(groups) == [kind |-> "Ok", err |-> "", groups |-> groups]

Err(e) == [kind |-> "Err", err |-> e, groups |-> <<>>]

\* collect::<Result<Vec<_>, _>>()? on the preprocessed citations, then the
\* clustering.
process_preprocessed(cits, cfg, bucket, source_map, pre) ==
    IF \E k \in 1..Len(pre) : ~IsSome(pre[k])
    THEN Err("ProcessingError")
    ELSE Ok(cluster(cits, cfg, bucket, [k \in 1..Len(pre) |-> Unwrap(pre[k])],
                    1, {}, source_map))

process_citation_group_with_sources(cits, cfg, bucket, source_map) ==
    process_preprocessed(cits, cfg, bucket, source_map,
                         [k \in 1..Len(bucket) |-> preprocess_one(cits, bucket[k])])

(***************************************************************************)
(* Partitioning and the source map.                                        *)
(***************************************************************************)
\* year_key with every citation under the sentinel.
year_key_sentinel_only(citation) == 0

\* get_citation_year_static(citation).unwrap_or(0)
year_key(citation) ==
    IF IsSome(get_citation_year(citation)) THEN Unwrap(get_citation_year(citation))
    ELSE 0

\* group_by_year with each bucket filled from the end of the input.
group_by_year_newest_first(cits) ==
    [y \in { year_key(cits[k]) : k \in 1..Len(cits) } |->
        Reversed(SortedSeq({ k \in 1..Len(cits) : year_key(cits[k]) = y }))]

\* HashMap<i32, Vec<&Citation>>: the positions of each year, in input order.
group_by_year(cits) ==
    [y \in { year_key(cits[k]) : k \in 1..Len(cits) } |->
        SortedSeq({ k \in 1..Len(cits) : year_key(cits[k]) = y })]

\* make_source_map padded with the source field of the citation itself.
make_source_map_own_source(cits, srcs) ==
    [idx \in 1..Len(cits) |-> IF idx <= Len(srcs) THEN Some(srcs[idx]) ELSE cits[idx].source]

\* HashMap<usize, Option<&str>>: sources zipped with the citations' indices,
\* padded with None.
make_source_map(cits, srcs) ==
    [idx \in 1..Len(cits) |-> IF idx <= Len(srcs) THEN Some(srcs[idx]) ELSE None]

(***************************************************************************)
(* Configuration.                                                          *)
(***************************************************************************)
DeduplicatorConfig(gby, par, prefs) ==
    [group_by_year |-> gby, run_in_parallel |-> par, source_preferences |-> prefs]

\* The configuration of Deduplicator::new().
new == DeduplicatorConfig(TRUE, FALSE, <<>>)

\* #[derive(Default)]: false, false and the empty vector, for
\* DeduplicatorConfig::default() and for the config of Deduplicator::default().
DeduplicatorConfig_default == DeduplicatorConfig(FALSE, FALSE, <<>>)

\* with_config without the adjustment of run_in_parallel.
with_config_as_given(self, cfg) == cfg

with_config(self, cfg) ==
    IF ~cfg.group_by_year
    THEN [cfg EXCEPT !.run_in_parallel = FALSE]
    ELSE cfg

(***************************************************************************)
(* Inputs of the model.                                                    *)
(***************************************************************************)
MaxCitations == 3

J1 == Some(<<"J", "1">>)

j1 == Some(<<"j", ".", "1">>)

D1 == Some(<<"d", "1">>)

V1 == Some(<<"1">>)

Vol1 == Some(<<"V", "o", "l", " ", "1", "a">>)

Abstract == Some(<<"x">>)

\* Three records with one DOI and matching journals whose titles form a
\* chain: ab ~ abc ~ abcd, while ab and abcd are too far apart.
A1 == Citation(<<"a", "b">>, D1, Some(2020), None, None, J1, None, V1, None, <<>>)

A2 == Citation(<<"a", "b", "c">>, D1, Some(2020), None, Abstract, J1, None, V1, None, <<>>)

A3 == Citation(<<"a", "b", "c", "d">>, D1, Some(2020), None, Abstract, None, j1, V1, None, <<>>)

\* A1 with another raw title, another year and no volume.
A4 == Citation(<<"A", " ", "b", ".">>, D1, Some(2019), None, None, J1, None, None, None, <<>>)

\* Records without a DOI: no year at all, and the year 0 in the deprecated field.
A5 == Citation(<<"a", "b", "c">>, Some(<<>>), None, None, Abstract, J1, None, Vol1, None, <<>>)

A6 == Citation(<<"a", "b", "c", "d">>, None, None, Some(0), None, J1, None, V1, None, <<>>)

\* A record whose title is empty, and one whose title is a single space,
\* which normalises to the empty string without an error.
A7 == Citation(<<>>, D1, Some(2020), None, None, J1, None, V1, None, <<>>)

A8 == Citation(<<" ">>, None, Some(2020), None, None, None, None, None, None, <<>>)

MatchingPool == {A1, A2, A3, A4, A5, A6, A7, A8}

SourcePool == {A1, A2, A4}

Labels == {"s1", "s2"}

Preferences == {<<>>, <<"s1", "s2">>, <<"s2">>}

\* How the deduplicator was built: the last constructor or builder call and
\* the configuration it was given.
Built(by, arg) == [by |-> by, arg |-> arg]

SeqsUpTo(S, n) == UNION { [1..k -> S] : k \in 0..n }

\* Every configuration that new() followed by with_config can yield.
Configs(prefs) ==
    { with_config(new, DeduplicatorConfig(gby, par, pr)) :
        gby \in BOOLEAN, par \in BOOLEAN, pr \in prefs }

NoResult == [kind |-> "Pending", err |-> "", groups |-> <<>>]

\* Any records, called without sources or with one source too many.
InitMatching ==
    /\ citations \in SeqsUpTo(MatchingPool, MaxCitations)
    /\ sources \in {<<>>, [k \in 1..Len(citations) + 1 |-> "s1"]}
    /\ config \in Configs({<<>>})

\* Records that match within a year, with every labelling of the sources.
InitSources ==
    /\ citations \in SeqsUpTo(SourcePool, MaxCitations)
    /\ sources \in SeqsUpTo(Labels, Len(citations) + 1)
    /\ config \in Configs(Preferences)

Init ==
    /\ (InitMatching \/ InitSources)
    /\ requested = Built("with_config", config)
    /\ pc = "ready"
    /\ year_groups = <<>>
    /\ pending = {}
    /\ duplicate_groups = <<>>
    /\ failed = FALSE
    /\ result = NoResult

(***************************************************************************)
(* Inputs for the pairwise matcher: a first record with every field        *)
(* present, and second records that vary each field on its own.            *)
(***************************************************************************)
D2 == Some(<<"d", "2">>)

J2 == Some(<<"J", "2">>)

V2 == Some(<<"2">>)

P1 == Some(<<"1", "-", "9">>)

P2 == Some(<<"2", "-", "9">>)

I1 == <<"1", "2", "3", "4", "-", "5", "6", "7", "8">>

\* Titles around the thresholds, against the normalised title abc: equal
\* after normalisation (1.0), abcd (Jaro 0.9167, Jaro-Winkler 0.9417), xabc
\* (0.9167 both), ab (0.8889 and 0.9111), a (0.7778 and 0.8), xyz (0.0).
ShortTitle == <<"a", "b", "c">>

ShortTitles ==
    { <<"A", "-", "b", " ", "c">>, <<"a", "b", "c", "d">>, <<"x", "a", "b", "c">>,
      <<"a", "b">>, <<"a">>, <<"x", "y", "z">> }

\* A title of 34 characters and the same title with one more character:
\* Jaro 0.9905, between 0.99 and 1.
LongTitle == <<"a", "b", "c", "d", "e", "f", "g", "h", "i", "j", "k", "l", "m", "n", "o", "p", "q", "r", "s", "t", "u", "v", "w", "x", "y", "z", "0", "1", "2", "3", "4", "5", "6", "7">>

LongTitles == { LongTitle \o <<"x">> }

\* Titles written with <U+XXXX> escapes, HTML markup and letters outside
\* ASCII. The first normalises to acafU+00E9; of the others, the first two
\* normalise to the same string and the third to one with another last
\* letter (Jaro 0.8667, Jaro-Winkler 0.92).
EscapedTitle == <<"<", "U", "+", "0", "3", "B", "1", ">", "c", "a", "f", "<", "U", "+", "0", "0", "e", "9", ">">>

EscapedTitles ==
    { <<"A", "C", "A", "F", "U+00C9">>,
      <<"<", "U", "+", "0", "0", "3", "C", ">", "s", "u", "p", ">", "a", "l", "p", "h", "a", "<", "/", "s", "u", "p", ">", "c", "a", "f", "U+00E9">>,
      <<"U+03B1", "c", "a", "f", "<", "U", "+", "0", "0", "E", "8", ">">> }

\* Titles whose similarity in exact arithmetic is a threshold, and below it
\* as an f64: 20 letters and their first 13 (Jaro-Winkler 0.9299999999999999
\* for 0.93), 100 letters and their first 97 (Jaro 0.9899999999999999 for
\* 0.99).
Title20 == SubSeq(LongTitle, 1, 20)

Prefix13 == SubSeq(LongTitle, 1, 13)

Title100 == [k \in 1..100 |-> LongTitle[((k - 1) % Len(LongTitle)) + 1]]

Prefix97 == SubSeq(Title100, 1, 97)

Dois == {None, Some(<<>>), D1, D2}

FirstOfPair(title, doi) ==
    Citation(title, doi, Some(2020), None, None, J1, None, V1, P1, <<I1>>)

\* Second records: a field is absent, equal to the first record's, or, with
\* `others`, different from it.
SecondsOfPair(titles, others) ==
    { Citation(title, doi, Some(date), None, None, journal, None, volume, pages, issn) :
        title \in titles, doi \in Dois, date \in {2020, 2019},
        journal \in {None, J1} \cup { J2 : o \in others },
        volume \in {None, V1} \cup { V2 : o \in others },
        pages \in {None, P1} \cup { P2 : o \in others },
        issn \in {<<>>} \cup { <<I1>> : o \in others } }

\* Second records with the first record's year, volume and pages, with or
\* without its DOI and its journal, and without an ISSN.
FewSecondsOfPair(titles) ==
    { Citation(title, doi, Some(2020), None, None, journal, None, V1, P1, <<>>) :
        title \in titles, doi \in {None, D1}, journal \in {None, J1} }

\* The pairs, in both orders.
PairsOf(first_title, first_dois, seconds) ==
    UNION { { <<FirstOfPair(first_title, doi), second>>,
              <<second, FirstOfPair(first_title, doi)>> } :
            doi \in first_dois, second \in seconds }

(***************************************************************************)
(* More pairs: first records with few fields or with the fields in their   *)
(* other representation, pairs that only the journal fields can decide,    *)
(* and pairs that only the ISSNs can decide.                               *)
(***************************************************************************)
\* A record with a title and nothing else.
BareOfPair == Citation(ShortTitle, None, None, None, None, None, None, None, None, <<>>)

\* The first record with its year in the deprecated field, its journal in
\* the abbreviation, a volume with text around the number, no pages and an
\* unhyphenated ISSN.
OtherFormOfPair == Citation(ShortTitle, D1, None, Some(2020), None, None, J1, Vol1, None, <<<<"1", "2", "3", "4", "5", "6", "7", "8">>>>)

PairsWith(first, seconds) == UNION { { <<first, second>>, <<second, first>> } : second \in seconds }

JConference == Some(<<"J", "1", ".", " ", "C", "o", "n", "f", "e", "r", "e", "n", "c", "e", " ", "x">>)

JournalNames == {None, Some(<<>>), J1, j1, J2, JConference}

JournalAbbreviations == {None, Some(<<>>), J1, J2}

\* Records with one title, DOI and year whose only other fields are the
\* journal name and its abbreviation.
JournalOfPair(journal, journal_abbr) == Citation(ShortTitle, D1, Some(2020), None, None, journal, journal_abbr, None, None, <<>>)

JournalPairs ==
    { <<JournalOfPair(journal1, abbr1), JournalOfPair(journal2, abbr2)>> :
        journal1 \in JournalNames, abbr1 \in JournalAbbreviations,
        journal2 \in JournalNames, abbr2 \in JournalAbbreviations }

MaxIssnDigits == 9

\* n digits with a hyphen before position p, or without one for p = 0.
Hyphenated(n, p) == [k \in 1..(IF p = 0 THEN n ELSE n + 1) |-> IF k = p THEN "-" ELSE "1"]

\* ISSN strings: every placement of at most one hyphen in 7 to
\* MaxIssnDigits digits, and strings with X, annotations, spaces, letters
\* and two hyphens.
IssnStrings ==
    { Hyphenated(n, p) : n \in 7..MaxIssnDigits, p \in 0..(MaxIssnDigits + 1) }
    \cup
    { I1,
      <<"1", "2", "3", "4", "5", "6", "7", "8">>,
      <<"1", "2", "3", "4", "-", "5", "6", "7", "X">>,
      <<"1", "2", "3", "4", "-", "5", "6", "7", "X", " ", "(", "E", "l", "e", "c", "t", "r", "o", "n", "i", "c", ")">>,
      <<"1", "2", "3", "4", "-", "5", "6", "7", "8", " ", "(", "P", "r", "i", "n", "t", ")">>,
      <<"(", "L", "i", "n", "k", "i", "n", "g", ")", "1", "2", "3", "4", "-", "5", "6", "7", "8">>,
      <<" ", "1", "2", "3", "4", "-", "5", "6", "7", "8", " ">>,
      <<"i", "n", "v", "a", "l", "i", "d">>,
      <<"1", "2", "3", "4", "-", "5", "6", "7", "8", "9">>,
      <<"1", "2", "3", "4", "5", "-", "6", "7", "8">>,
      <<>>,
      <<"1", "2", "3", "4", " ", "5", "6", "7", "8">>,
      <<"I", "S", "S", "N", " ", "1", "2", "3", "4", "-", "5", "6", "7", "8">>,
      <<"X", "2", "3", "4", "-", "5", "6", "7", "8">>,
      <<"1", "2", "3", "4", "-", "-", "5", "6", "7", "8">>,
      <<"1", "2", "3", "4", "-", "5", "6", "7", "8", "-">>,
      <<"1", "2", "-", "3", "4", "-", "5", "6", "7", "8">>,
      <<"1", "2", "3", "4", "-", "5", "-", "6", "7", "8">>,
      <<"(", "P", "r", "i", "n", "t">>,
      <<"1", "2", "3", "4", "-", "5", "6", "7", "8", "X">> }

\* Records with one title, DOI and year whose only other field is one ISSN.
IssnOfPair(issn_str) == Citation(ShortTitle, D1, Some(2020), None, None, None, None, None, None, <<issn_str>>)

IssnPairs ==
    UNION { PairsWith(IssnOfPair(first), { IssnOfPair(second) : second \in IssnStrings }) :
            first \in { I1, Hyphenated(8, 5), <<"1", "2", "3", "4", "-", "5", "6", "7", "X">> } }

\* Two records in one bucket: year grouping is off.
InitPair ==
    /\ citations \in
         PairsOf(ShortTitle, {None, Some(<<>>), D1}, SecondsOfPair(ShortTitles, {1}))
           \cup PairsOf(LongTitle, {None, D1}, SecondsOfPair(LongTitles, {}))
           \cup PairsOf(EscapedTitle, {None, D1}, FewSecondsOfPair(EscapedTitles))
           \cup PairsOf(Title20, {None, D1}, FewSecondsOfPair({Prefix13}))
           \cup PairsOf(Title100, {None, D1}, FewSecondsOfPair({Prefix97}))
           \cup PairsWith(BareOfPair, SecondsOfPair({ShortTitle}, {}) \cup {BareOfPair})
           \cup PairsWith(OtherFormOfPair, SecondsOfPair({ShortTitle}, {1}))
           \cup JournalPairs
           \cup IssnPairs
    /\ sources = <<>>
    /\ config = with_config(new, DeduplicatorConfig(FALSE, FALSE, <<>>))
    /\ requested = Built("with_config", config)
    /\ pc = "ready"
    /\ year_groups = <<>>
    /\ pending = {}
    /\ duplicate_groups = <<>>
    /\ failed = FALSE
    /\ result = NoResult

(***************************************************************************)
(* Inputs for canonical selection: records that are duplicates of each     *)
(* other whatever their DOI (same title, year, journal and volume), with   *)
(* the abstract absent, empty or present.                                  *)
(***************************************************************************)
SelectionPool ==
    { Citation(ShortTitle, doi, Some(2020), None, abstract_text, J1, None, V1, None, <<>>) :
        doi \in {None, Some(<<>>), D1}, abstract_text \in {None, Some(<<>>), Abstract} }

InitSelection ==
    /\ citations \in SeqsUpTo(SelectionPool, MaxCitations)
    /\ sources = <<>>
    /\ config \in Configs({<<>>})
    /\ requested = Built("with_config", config)
    /\ pc = "ready"
    /\ year_groups = <<>>
    /\ pending = {}
    /\ duplicate_groups = <<>>
    /\ failed = FALSE
    /\ result = NoResult

(***************************************************************************)
(* Inputs for calls without sources: records that carry their own source   *)
(* field, absent or set to one of the labels.                              *)
(***************************************************************************)
\* Citation { source, ..citation }
with_source(citation, source) ==
    [f \in DOMAIN citation \cup {"source"} |-> IF f = "source" THEN source ELSE citation[f]]

OwnSourcePool ==
    { with_source(citation, source) :
        citation \in SourcePool, source \in {None} \cup { Some(label) : label \in Labels } }

\* find_duplicates: the sources are the empty slice.
InitOwnSource ==
    /\ citations \in SeqsUpTo(OwnSourcePool, MaxCitations)
    /\ sources = <<>>
    /\ config \in Configs(Preferences)
    /\ requested = Built("with_config", config)
    /\ pc = "ready"
    /\ year_groups = <<>>
    /\ pending = {}
    /\ duplicate_groups = <<>>
    /\ failed = FALSE
    /\ result = NoResult

(***************************************************************************)
(* find_duplicates_with_sources.                                           *)
(***************************************************************************)
source_map == make_source_map(citations, sources)

all_refs(cits) == [k \in 1..Len(cits) |-> k]

Return(r) ==
    /\ result' = r
    /\ pc' = "done"

\* entry_check with the comparison of the lengths off by one.
entry_check_off_by_one(cits, srcs) ==
    IF cits = <<>> THEN "empty"
    ELSE IF Len(srcs) > Len(cits) + 1 THEN "sources exceed citations"
    ELSE "proceed"

\* entry_check with the two checks exchanged.
entry_check_sources_first(cits, srcs) ==
    IF Len(srcs) > Len(cits) THEN "sources exceed citations"
    ELSE IF cits = <<>> THEN "empty"
    ELSE "proceed"

\* The two checks the call starts with, in the order of the code.
entry_check(cits, srcs) ==
    IF cits = <<>> THEN "empty"
    ELSE IF Len(srcs) > Len(cits) THEN "sources exceed citations"
    ELSE "proceed"

\* The call up to the point where the buckets are handed out; without year
\* grouping the whole call.
FindDuplicates ==
    /\ pc = "ready"
    /\ IF entry_check(citations, sources) = "empty"
       THEN Return(Ok(<<>>)) /\ UNCHANGED <<year_groups, pending>>
       ELSE IF entry_check(citations, sources) = "sources exceed citations"
       THEN Return(Err("ConfigError")) /\ UNCHANGED <<year_groups, pending>>
       ELSE IF config.group_by_year
       THEN /\ year_groups' = group_by_year(citations)
            /\ pending' = DOMAIN year_groups'
            /\ pc' = IF config.run_in_parallel THEN "par" ELSE "seq"
            /\ UNCHANGED result
       ELSE /\ Return(process_citation_group_with_sources(
                          citations, config, all_refs(citations), source_map))
            /\ UNCHANGED <<year_groups, pending>>
    /\ UNCHANGED <<citations, sources, config, requested, duplicate_groups, failed>>

\* SequentialStep with the error of a bucket dropped instead of returned.
SequentialStep_skip_error(y, r) ==
    /\ duplicate_groups' = duplicate_groups \o r.groups
    /\ pending' = pending \ {y}
    /\ IF pending' = {}
       THEN Return(Ok(duplicate_groups'))
       ELSE UNCHANGED <<pc, result>>

\* One iteration of `for citations_in_year in year_groups.values()` on the
\* bucket y, whose processing yields r: an error returns at once, and the
\* last iteration is followed by the return of the groups.
SequentialStep(y, r) ==
    IF r.kind = "Err"
    THEN Return(r) /\ UNCHANGED <<pending, duplicate_groups>>
    ELSE /\ duplicate_groups' = duplicate_groups \o r.groups
         /\ pending' = pending \ {y}
         /\ IF pending' = {}
            THEN Return(Ok(duplicate_groups'))
            ELSE UNCHANGED <<pc, result>>

\* The map's iteration order is arbitrary.
SequentialBucket ==
    /\ pc = "seq"
    /\ \E y \in pending :
         SequentialStep(y, process_citation_group_with_sources(
                               citations, config, year_groups[y], source_map))
    /\ UNCHANGED <<citations, sources, config, requested, year_groups, failed>>

\* ParallelStep with the workers writing one shared vector, the last writer
\* winning.
ParallelStep_shared_vector(y, r) ==
    /\ pending' = pending \ {y}
    /\ IF r.kind = "Err"
       THEN failed' = TRUE /\ UNCHANGED duplicate_groups
       ELSE duplicate_groups' = r.groups /\ UNCHANGED failed

ParallelStep(y, r) ==
    /\ pending' = pending \ {y}
    /\ IF r.kind = "Err"
       THEN failed' = TRUE /\ UNCHANGED duplicate_groups
       ELSE duplicate_groups' = duplicate_groups \o r.groups /\ UNCHANGED failed

\* One bucket of year_groups.par_iter().map(...), on some worker.
ParallelBucket ==
    /\ pc = "par"
    /\ \E y \in pending :
         ParallelStep(y, process_citation_group_with_sources(
                             citations, config, year_groups[y], source_map))
    /\ UNCHANGED <<citations, sources, config, requested, year_groups, pc, result>>

\* collect::<Result<Vec<_>, _>>() and the flattening: an error of any bucket
\* is the result, and once one is seen the remaining buckets may be skipped.
ParallelCollect ==
    /\ pc = "par"
    /\ pending = {} \/ failed
    /\ Return(IF failed THEN Err("ProcessingError") ELSE Ok(duplicate_groups))
    /\ UNCHANGED <<citations, sources, config, requested, year_groups, pending,
                   duplicate_groups, failed>>

Next ==
    \/ FindDuplicates
    \/ SequentialBucket
    \/ ParallelBucket
    \/ ParallelCollect

Spec == Init /\ [][Next]_vars

(***************************************************************************)
(* Building the deduplicator: new() or Deduplicator::default(), then any   *)
(* number of with_config calls, then the call.                             *)
(***************************************************************************)
\* Every value of DeduplicatorConfig over the preferences of the model;
\* DeduplicatorConfig { source_preferences, ..Default::default() } is among
\* them.
RawConfigs ==
    { DeduplicatorConfig(gby, par, prefs) :
        gby \in BOOLEAN, par \in BOOLEAN, prefs \in Preferences }

InitConfig ==
    /\ citations \in SeqsUpTo(SourcePool, MaxCitations)
    /\ sources \in {<<>>, [k \in 1..Len(citations) |-> "s2"]}
    /\ \/ config = new /\ requested = Built("new", new)
       \/ config = DeduplicatorConfig_default
            /\ requested = Built("default", DeduplicatorConfig_default)
    /\ pc = "ready"
    /\ year_groups = <<>>
    /\ pending = {}
    /\ duplicate_groups = <<>>
    /\ failed = FALSE
    /\ result = NoResult

WithConfig ==
    /\ pc = "ready"
    /\ \E cfg \in RawConfigs :
         /\ config' = with_config(config, cfg)
         /\ requested' = Built("with_config", cfg)
    /\ UNCHANGED <<citations, sources, pc, year_groups, pending,
                   duplicate_groups, failed, result>>

NextConfig ==
    \/ WithConfig
    \/ FindDuplicates
    \/ SequentialBucket
    \/ ParallelBucket
    \/ ParallelCollect

SpecConfig == InitConfig /\ [][NextConfig]_vars

\* Any records, under every configuration without preferences: the inputs
\* of the clustering.
InitCluster ==
    /\ InitMatching
    /\ requested = Built("with_config", config)
    /\ pc = "ready"
    /\ year_groups = <<>>
    /\ pending = {}
    /\ duplicate_groups = <<>>
    /\ failed = FALSE
    /\ result = NoResult

SpecCluster == InitCluster /\ [][Next]_vars

SpecOwnSource == InitOwnSource /\ [][Next]_vars

SpecSelection == InitSelection /\ [][Next]_vars

\* The call on a pair, which without year grouping is one step.
NextPair == FindDuplicates

SpecPair == InitPair /\ [][NextPair]_vars

(***************************************************************************)
(* Properties.                                                             *)
(***************************************************************************)
Done == pc = "done"

Succeeded == pc = "done" /\ result.kind = "Ok"

\* The places <<group, k>> of the output: k = 0 is `unique`, k > 0 is the
\* k-th entry of `duplicates`.
Places(groups) ==
    UNION { { <<gi, k>> : k \in 0..Len(groups[gi].duplicates) } : gi \in 1..Len(groups) }

At(groups, place) ==
    IF place[2] = 0 THEN groups[place[1]].unique
    ELSE groups[place[1]].duplicates[place[2]]

title_fails(c) == ~IsSome(normalize_string(convert_unicode_string(c.title)))

sources_fit == Len(sources) <= Len(citations)

\* C1: on success every input citation, identified by its position, occurs
\* at exactly one place of the output (as `unique` or as one entry of
\* `duplicates`), so the groups' sizes 1 + |duplicates| add up to the number
\* of input citations.
C1_EveryCitationExactlyOnce ==
    Succeeded =>
        /\ \A pos \in 1..Len(citations) :
               Cardinality({ pl \in Places(result.groups) :
                               At(result.groups, pl) = pos }) = 1
        /\ Cardinality(Places(result.groups)) = Len(citations)

\* A successful run over several buckets with a group that has duplicates.
C1_Witness ==
    /\ Succeeded
    /\ Len(citations) = MaxCitations
    /\ Cardinality(DOMAIN year_groups) >= 2
    /\ \E gi \in 1..Len(result.groups) : result.groups[gi].duplicates # <<>>

\* C2: in every emitted group `unique` is not among `duplicates`, and it is
\* one of the records the cluster builder put in the group.
C2_UniqueNotAmongDuplicates ==
    Succeeded =>
        \A gi \in 1..Len(result.groups) :
            /\ result.groups[gi].unique \notin Range(result.groups[gi].duplicates)
            /\ result.groups[gi].unique \in Range(result.groups[gi].members)

\* A group of three whose `unique` is not its seed.
C2_Witness ==
    /\ Succeeded
    /\ \E gi \in 1..Len(result.groups) :
           /\ Len(result.groups[gi].members) = 3
           /\ result.groups[gi].unique # result.groups[gi].members[1]

\* C3: the source label used for a citation in canonical selection is the
\* entry of `sources` at the citation's position in the input (none when
\* `sources` is shorter): every `unique` is the selection made with the
\* members' input positions as the indices of the labels.
C3_LabelsByInputPosition ==
    Succeeded =>
        \A gi \in 1..Len(result.groups) :
            result.groups[gi].unique =
                select_unique_citation_with_sources(
                    citations, config, result.groups[gi].members,
                    result.groups[gi].members, source_map)

\* The label of the citation at an input position.
label_of(pos) == source_map[pos]

\* The preferences, by priority, that the label of some member equals.
matched_preferences(g) ==
    { p \in 1..Len(config.source_preferences) :
        \E k \in 1..Len(g.members) :
            label_of(g.members[k]) = Some(config.source_preferences[p]) }

one_bucket ==
    \/ ~config.group_by_year
    \/ \A k1, k2 \in 1..Len(citations) :
           get_citation_year(citations[k1]) = get_citation_year(citations[k2])

\* C4: with one bucket, preferences and a group of two or more: when a
\* member's label is a listed preference, `unique` is the first member whose
\* label is the highest-priority preference any member matches, whatever the
\* abstracts and DOIs; otherwise the abstract/DOI rule selects.
C4_SourcePreferenceFirst ==
    (Succeeded /\ one_bucket /\ config.source_preferences # <<>>) =>
        \A gi \in 1..Len(result.groups) :
            Len(result.groups[gi].members) >= 2 =>
                IF matched_preferences(result.groups[gi]) # {}
                THEN \E k \in 1..Len(result.groups[gi].members) :
                       /\ result.groups[gi].unique = result.groups[gi].members[k]
                       /\ \E p \in matched_preferences(result.groups[gi]) :
                            /\ \A q \in matched_preferences(result.groups[gi]) : p <= q
                            /\ label_of(result.groups[gi].members[k])
                                   = Some(config.source_preferences[p])
                            /\ \A k2 \in 1..(k - 1) :
                                   label_of(result.groups[gi].members[k2])
                                       # Some(config.source_preferences[p])
                ELSE result.groups[gi].unique =
                         select_unique_citation(citations, result.groups[gi].members)

\* The preferred label is carried by the second member only, the first one
\* carries a preference of lower priority, and the abstract/DOI rule would
\* have chosen otherwise.
C4_Witness ==
    /\ Succeeded /\ one_bucket
    /\ Len(config.source_preferences) = 2
    /\ \E gi \in 1..Len(result.groups) :
           /\ Len(result.groups[gi].members) >= 2
           /\ label_of(result.groups[gi].members[1]) = Some(config.source_preferences[2])
           /\ label_of(result.groups[gi].members[2]) = Some(config.source_preferences[1])
           /\ result.groups[gi].unique = result.groups[gi].members[2]
           /\ select_unique_citation(citations, result.groups[gi].members)
                  # result.groups[gi].unique

\* C5 as claimed: whenever `sources` is longer than `citations` the call
\* fails with ConfigError.
C5_ConfigErrorWheneverSourcesLonger ==
    (Done /\ Len(sources) > Len(citations)) => result = Err("ConfigError")

\* C5 amended: whenever `citations` is not empty and `sources` is longer,
\* the call fails with ConfigError, before any bucket is formed or processed.
C5_ConfigErrorForNonEmptyInput ==
    (Done /\ citations # <<>> /\ Len(sources) > Len(citations)) =>
        /\ result = Err("ConfigError")
        /\ year_groups = <<>>
        /\ duplicate_groups = <<>>

\* ConfigError although the title of a citation cannot be normalised.
C5_Witness ==
    /\ Done
    /\ Len(sources) > Len(citations)
    /\ \E k \in 1..Len(citations) : title_fails(citations[k])
    /\ result = Err("ConfigError")

\* C6: for an empty input the call returns no group and no error, for every
\* configuration.
C6_EmptyInputEmptyOutput ==
    (Done /\ citations = <<>>) => result = Ok(<<>>)

\* The empty input under parallel mode with preferences and a source.
C6_Witness ==
    /\ Done
    /\ citations = <<>>
    /\ sources # <<>>
    /\ config.run_in_parallel
    /\ config.source_preferences # <<>>
    /\ result = Ok(<<>>)

\* C7: all or nothing: a result that is an error holds no group, and when
\* the title of any citation of any bucket cannot be normalised, the result
\* is an error, in sequential and in parallel mode.
C7_AllOrNothing ==
    Done =>
        /\ result.kind = "Err" => result.groups = <<>>
        /\ (\E k \in 1..Len(citations) : title_fails(citations[k]))
             => result.kind = "Err"

\* An error returned after another bucket had yielded its groups.
C7_Witness ==
    /\ Done
    /\ result.kind = "Err"
    /\ result.err = "ProcessingError"
    /\ duplicate_groups # <<>>
    /\ result.groups = <<>>

\* C8 as claimed: a citation with the empty title makes the call fail with
\* InvalidCitation.
C8_EmptyTitleInvalidCitation ==
    (Done /\ \E k \in 1..Len(citations) : citations[k].title = <<>>) =>
        (result.kind = "Err" /\ result.err = "InvalidCitation")

\* C8 amended: a citation with the empty title makes the whole call fail,
\* with ProcessingError, or with ConfigError when `sources` is longer than
\* `citations`; no group is returned.
C8_EmptyTitleProcessingError ==
    (Done /\ \E k \in 1..Len(citations) : citations[k].title = <<>>) =>
        /\ result.kind = "Err"
        /\ result.err = IF sources_fit THEN "ProcessingError" ELSE "ConfigError"
        /\ result.groups = <<>>

\* ProcessingError for an input that also holds a valid citation.
C8_Witness ==
    /\ Done
    /\ Len(citations) >= 2
    /\ \E k \in 1..Len(citations) : citations[k].title = <<>>
    /\ \E k \in 1..Len(citations) : citations[k].title # <<>>
    /\ result = Err("ProcessingError")

\* Both citations have a year and the years are different.
years_differ(c1, c2) ==
    /\ IsSome(get_citation_year(c1))
    /\ IsSome(get_citation_year(c2))
    /\ get_citation_year(c1) # get_citation_year(c2)

\* The matcher's decision for the citations at two input positions.
declared_duplicates(k1, k2) ==
    /\ ~title_fails(citations[k1])
    /\ ~title_fails(citations[k2])
    /\ is_duplicate(citations, Unwrap(preprocess_one(citations, k1)),
                    Unwrap(preprocess_one(citations, k2)))

\* C9: with year grouping, two citations whose years differ are never
\* members of one group.
C9_YearIsolation ==
    (Succeeded /\ config.group_by_year) =>
        \A gi \in 1..Len(result.groups) :
            \A k1, k2 \in 1..Len(result.groups[gi].members) :
                ~years_differ(citations[result.groups[gi].members[k1]],
                              citations[result.groups[gi].members[k2]])

\* Two citations of different years that the matcher declares duplicates,
\* after a successful run with year grouping.
C9_Witness ==
    /\ Succeeded
    /\ config.group_by_year
    /\ \E k1, k2 \in 1..Len(citations) :
           /\ years_differ(citations[k1], citations[k2])
           /\ declared_duplicates(k1, k2)

\* The premise of C10 for an input of exactly two citations: equal non-empty
\* DOIs, Jaro similarity of the normalised titles at least 0.85, and a
\* journal or ISSN match.
doi_journal_pair ==
    /\ Len(citations) = 2
    /\ sources_fit
    /\ ~title_fails(citations[1]) /\ ~title_fails(citations[2])
    /\ both_have_doi(citations[1], citations[2])
    /\ citations[1].doi = citations[2].doi
    /\ at_least(jaro(Unwrap(preprocess_one(citations, 1)).normalized_title,
                     Unwrap(preprocess_one(citations, 2)).normalized_title),
                DOI_TITLE_SIMILARITY_THRESHOLD)
    /\ \/ journals_match(format_journal_name(citations[1].journal),
                         format_journal_name(citations[1].journal_abbr),
                         format_journal_name(citations[2].journal),
                         format_journal_name(citations[2].journal_abbr))
       \/ match_issns(normalize_issns(citations[1].issn),
                      normalize_issns(citations[2].issn))

\* C10: without year grouping, a pair with equal non-empty DOIs, title
\* similarity at least 0.85 and a journal or ISSN match is one group with
\* one duplicate, whatever the years, volumes and pages.
C10_NoYearGroupingIgnoresYear ==
    (Done /\ ~config.group_by_year /\ doi_journal_pair) =>
        /\ result.kind = "Ok"
        /\ Len(result.groups) = 1
        /\ Len(result.groups[1].duplicates) = 1

\* Such a pair with different years and neither volume nor pages matching.
C10_Witness ==
    /\ Done /\ ~config.group_by_year /\ doi_journal_pair
    /\ years_differ(citations[1], citations[2])
    /\ ~volumes_match(Unwrap(preprocess_one(citations, 1)),
                      Unwrap(preprocess_one(citations, 2)))
    /\ ~pages_match(citations[1], citations[2])
    /\ Len(result.groups) = 1

\* The groups of the buckets taken in the order `order`, one after the other.
groups_in_order(order) ==
    FlattenSeq([k \in 1..Len(order) |->
        process_citation_group_with_sources(
            citations, config, group_by_year(citations)[order[k]], source_map).groups])

\* The groups of one sequential run that visits the buckets by ascending year.
reference_groups ==
    IF config.group_by_year
    THEN groups_in_order(SortedSeq(DOMAIN group_by_year(citations)))
    ELSE process_citation_group_with_sources(
             citations, config, all_refs(citations), source_map).groups

\* A group as its `unique` and the set of its duplicates.
membership(groups) ==
    { [unique |-> groups[gi].unique, duplicates |-> Range(groups[gi].duplicates)] :
        gi \in 1..Len(groups) }

\* Two lists of groups with the same memberships, as many in each.
same_membership(groups, reference) ==
    /\ membership(groups) = membership(reference)
    /\ Len(groups) = Len(reference)

\* C11: membership is deterministic: whatever the order in which buckets are
\* visited and whether they are processed sequentially or by parallel
\* workers, a successful call returns the same set of groups (unique and set
\* of duplicates, by input position), as many of them, and the call succeeds
\* on the same inputs; only the order of the groups may differ.
C11_MembershipDeterministic ==
    Done =>
        /\ result.kind = "Ok" <=>
               (citations = <<>>
                  \/ (sources_fit /\ \A k \in 1..Len(citations) : ~title_fails(citations[k])))
        /\ result.kind = "Ok" /\ citations # <<>> =>
               same_membership(result.groups, reference_groups)

\* A parallel run whose groups come in another order than the reference run,
\* one of them with duplicates.
C11_Witness ==
    /\ Succeeded
    /\ config.run_in_parallel
    /\ result.groups # reference_groups
    /\ \E gi \in 1..Len(result.groups) : result.groups[gi].duplicates # <<>>

(***************************************************************************)
(* The matcher's decision on a pair, observed as the grouping of an input  *)
(* of two records that share a bucket.                                     *)
(***************************************************************************)
pair_in_one_bucket ==
    /\ Done /\ result.kind = "Ok"
    /\ Len(citations) = 2
    /\ ~config.group_by_year

pair_grouped == Len(result.groups) = 1 /\ Len(result.groups[1].duplicates) = 1

nonempty_doi(c) == c.doi # None /\ Unwrap(c.doi) # <<>>

pair_with_dois == nonempty_doi(citations[1]) /\ nonempty_doi(citations[2])

pair_doi_equal == citations[1].doi = citations[2].doi

pair_jaro ==
    jaro(Unwrap(preprocess_one(citations, 1)).normalized_title,
         Unwrap(preprocess_one(citations, 2)).normalized_title)

pair_jaro_winkler ==
    jaro_winkler(Unwrap(preprocess_one(citations, 1)).normalized_title,
                 Unwrap(preprocess_one(citations, 2)).normalized_title)

pair_journal_or_issn ==
    \/ journals_match(format_journal_name(citations[1].journal),
                      format_journal_name(citations[1].journal_abbr),
                      format_journal_name(citations[2].journal),
                      format_journal_name(citations[2].journal_abbr))
    \/ match_issns(normalize_issns(citations[1].issn), normalize_issns(citations[2].issn))

pair_volume ==
    volumes_match(Unwrap(preprocess_one(citations, 1)), Unwrap(preprocess_one(citations, 2)))

pair_pages == pages_match(citations[1], citations[2])

pair_year == years_match(citations[1], citations[2])

\* The three alternatives of the rule for pairs with DOIs, as claimed, for
\* the similarity sim.
with_doi_verdict_at(sim) ==
    \/ (pair_doi_equal /\ at_least(sim, DOI_TITLE_SIMILARITY_THRESHOLD)
            /\ pair_journal_or_issn)
    \/ (pair_doi_equal /\ at_least(sim, HIGH_TITLE_SIMILARITY)
            /\ (pair_volume \/ pair_pages))
    \/ (at_least(sim, HIGH_TITLE_SIMILARITY) /\ pair_year
            /\ (pair_volume \/ pair_pages) /\ pair_journal_or_issn)

with_doi_verdict == with_doi_verdict_at(pair_jaro)

\* The two alternatives of the rule for the other pairs, as claimed, for
\* the similarity sim.
without_doi_verdict_at(sim) ==
    \/ (at_least(sim, NO_DOI_TITLE_SIMILARITY_THRESHOLD)
            /\ (pair_volume \/ pair_pages) /\ pair_journal_or_issn)
    \/ (at_least(sim, HIGH_TITLE_SIMILARITY) /\ pair_year
            /\ pair_volume /\ pair_pages)

without_doi_verdict == without_doi_verdict_at(pair_jaro_winkler)

\* C12: two records that both have a non-empty DOI are declared duplicates
\* exactly when one of the three alternatives holds, the similarity being the
\* Jaro similarity of the normalised titles.
C12_WithDoiRule ==
    (pair_in_one_bucket /\ pair_with_dois) => (pair_grouped <=> with_doi_verdict)

\* Duplicates by the third alternative alone: the DOIs are different and the
\* similarity is at least 0.99 without the titles being equal.
C12_Witness ==
    /\ pair_in_one_bucket /\ pair_with_dois
    /\ ~pair_doi_equal
    /\ pair_jaro # F64_ONE
    /\ pair_grouped

\* C13: two records that do not both have a non-empty DOI are declared
\* duplicates exactly when one of the two alternatives holds, the similarity
\* being the Jaro-Winkler similarity of the normalised titles.
C13_WithoutDoiRule ==
    (pair_in_one_bucket /\ ~pair_with_dois) => (pair_grouped <=> without_doi_verdict)

\* Duplicates by the second alternative alone: no journal or ISSN match,
\* volume and pages both matching.
C13_Witness ==
    /\ pair_in_one_bucket /\ ~pair_with_dois
    /\ ~pair_journal_or_issn
    /\ pair_volume /\ pair_pages /\ pair_year
    /\ pair_grouped

\* C14: the rule for pairs with DOIs decides a pair exactly when both DOIs
\* are present and non-empty; an absent or empty DOI on either side leaves
\* the pair to the other rule, so a record with a DOI and a record with an
\* empty or absent DOI, with the same title, journal and volume, are grouped.
C14_BranchOnDoiPresence ==
    pair_in_one_bucket =>
        /\ pair_grouped <=> (IF pair_with_dois THEN with_doi_verdict
                                               ELSE without_doi_verdict)
        /\ (/\ nonempty_doi(citations[1]) # nonempty_doi(citations[2])
            /\ pair_jaro = F64_ONE
            /\ pair_volume
            /\ journals_match(format_journal_name(citations[1].journal), None,
                              format_journal_name(citations[2].journal), None))
             => pair_grouped

\* A record with a DOI grouped with a record whose DOI is the empty string,
\* in a pair that the rule for pairs with DOIs would not group.
C14_Witness ==
    /\ pair_in_one_bucket
    /\ nonempty_doi(citations[1])
    /\ citations[2].doi = Some(<<>>)
    /\ pair_grouped
    /\ ~with_doi_verdict

\* The similarity of the branch that decides the pair.
pair_similarity == IF pair_with_dois THEN pair_jaro ELSE pair_jaro_winkler

\* C15: every pair declared duplicate has a title similarity of at least
\* 0.85 and a journal, ISSN, volume or pages match, and at least 0.93 when
\* the two DOIs are not both present.
C15_NeverOnDoiAlone ==
    (pair_in_one_bucket /\ pair_grouped) =>
        /\ at_least(pair_similarity,
                    IF pair_with_dois THEN DOI_TITLE_SIMILARITY_THRESHOLD
                                      ELSE NO_DOI_TITLE_SIMILARITY_THRESHOLD)
        /\ pair_journal_or_issn \/ pair_volume \/ pair_pages

\* Equal DOIs and a similarity below 0.93, grouped on the journal alone.
C15_Witness ==
    /\ pair_in_one_bucket /\ pair_with_dois /\ pair_doi_equal
    /\ ~at_least(pair_jaro, NO_DOI_TITLE_SIMILARITY_THRESHOLD)
    /\ ~pair_volume /\ ~pair_pages
    /\ pair_grouped

(***************************************************************************)
(* Canonical selection without source preferences.                         *)
(***************************************************************************)
nonempty_abstract(c) == c.abstract_text # None /\ Unwrap(c.abstract_text) # <<>>

\* The places in a group of the members with a non-empty abstract.
with_nonempty_abstract(g) ==
    { k \in 1..Len(g.members) : nonempty_abstract(citations[g.members[k]]) }

\* Those of them that also have a non-empty DOI.
with_abstract_and_doi(g) ==
    { k \in with_nonempty_abstract(g) : nonempty_doi(citations[g.members[k]]) }

first_of(places) == CHOOSE k \in places : \A k2 \in places : k <= k2

\* C16: without source preferences, in a group of duplicates in which
\* exactly one member has a non-empty abstract, that member is `unique`; when
\* no member has a non-empty abstract the first member is.
C16_SingleAbstractSelected ==
    (Succeeded /\ config.source_preferences = <<>>) =>
        \A gi \in 1..Len(result.groups) :
            Len(result.groups[gi].members) >= 2 =>
                /\ Cardinality(with_nonempty_abstract(result.groups[gi])) = 1 =>
                       result.groups[gi].unique =
                           result.groups[gi].members[
                               first_of(with_nonempty_abstract(result.groups[gi]))]
                /\ with_nonempty_abstract(result.groups[gi]) = {} =>
                       result.groups[gi].unique = result.groups[gi].members[1]

\* C17: without source preferences, in a group in which two or more members
\* have an abstract, `unique` is the first of them that has a non-empty DOI,
\* or the first of them when none has one; a member without abstract is
\* never chosen.
C17_AbstractThenDoi ==
    (Succeeded /\ config.source_preferences = <<>>) =>
        \A gi \in 1..Len(result.groups) :
            Cardinality(with_nonempty_abstract(result.groups[gi])) >= 2 =>
                result.groups[gi].unique =
                    result.groups[gi].members[
                        IF with_abstract_and_doi(result.groups[gi]) # {}
                        THEN first_of(with_abstract_and_doi(result.groups[gi]))
                        ELSE first_of(with_nonempty_abstract(result.groups[gi]))]

(***************************************************************************)
(* The configuration.                                                      *)
(***************************************************************************)
documented_default == DeduplicatorConfig(TRUE, FALSE, <<>>)

\* A default-constructed DeduplicatorConfig, possibly with the preferences
\* given: DeduplicatorConfig { source_preferences, ..Default::default() }.
default_constructed(cfg) ==
    cfg = [DeduplicatorConfig_default EXCEPT !.source_preferences = cfg.source_preferences]

\* C18: the default configuration has group_by_year = true, run_in_parallel
\* = false and no preferences: that of Deduplicator::new(), that of
\* DeduplicatorConfig::default(), and, but for the preferences given, the
\* effective one after with_config of a default-constructed configuration.
C18_DefaultConfiguration ==
    /\ requested.by = "new" => config = documented_default
    /\ DeduplicatorConfig_default = documented_default
    /\ (requested.by = "with_config" /\ default_constructed(requested.arg)) =>
           (config.group_by_year /\ ~config.run_in_parallel)

\* C19: the effective configuration never has run_in_parallel without
\* group_by_year, and the parallel branch is only entered over year buckets.
C19_ParallelOnlyWithYearGrouping ==
    /\ ~(config.run_in_parallel /\ ~config.group_by_year)
    /\ pc = "par" => (config.group_by_year /\ year_groups # <<>>)

\* A call completed by a deduplicator that was given run_in_parallel = true
\* with group_by_year = false.
C19_Witness ==
    /\ requested.by = "with_config"
    /\ requested.arg.run_in_parallel
    /\ ~requested.arg.group_by_year
    /\ ~config.run_in_parallel
    /\ Succeeded
    /\ Len(citations) >= 2

\* The citations at two input positions are compared: they share a bucket.
same_bucket(k1, k2) ==
    config.group_by_year => year_key(citations[k1]) = year_key(citations[k2])

\* The matcher declares the citation at pos a duplicate of no other citation
\* of its bucket, in either direction.
unmatched(pos) ==
    \A other \in 1..Len(citations) :
        (other # pos /\ same_bucket(pos, other)) =>
            (~declared_duplicates(pos, other) /\ ~declared_duplicates(other, pos))

\* C20: a citation that the matcher declares a duplicate of no other
\* citation of its bucket is the `unique` of exactly one group, that group
\* has no duplicates, and the citation is in no `duplicates` list; so an
\* input of one citation yields one such group.
C20_UnmatchedIsSingleton ==
    Succeeded =>
        /\ \A pos \in 1..Len(citations) :
               unmatched(pos) =>
                   /\ Cardinality({ gi \in 1..Len(result.groups) :
                                      result.groups[gi].unique = pos }) = 1
                   /\ \A gi \in 1..Len(result.groups) :
                          /\ result.groups[gi].unique = pos =>
                                 result.groups[gi].duplicates = <<>>
                          /\ pos \notin Range(result.groups[gi].duplicates)
        /\ Len(citations) = 1 =>
               (Len(result.groups) = 1 /\ result.groups[1].duplicates = <<>>)

\* An unmatched citation that comes last in its input, after two citations
\* that are grouped, and that the matcher would declare a duplicate of one
\* of them were they in one bucket.
C20_Witness ==
    /\ Succeeded
    /\ Len(citations) = 3
    /\ unmatched(3)
    /\ declared_duplicates(1, 3)
    /\ \E gi \in 1..Len(result.groups) : result.groups[gi].members = <<1, 2>>
    /\ \E gi \in 1..Len(result.groups) : result.groups[gi].members = <<3>>

(***************************************************************************)
(* Clustering.                                                             *)
(***************************************************************************)
same_group(k1, k2) ==
    \E gi \in 1..Len(result.groups) :
        k1 \in Range(result.groups[gi].members) /\ k2 \in Range(result.groups[gi].members)

\* Three records of one bucket of which the matcher pairs a with b and b
\* with c but not a with c.
chain(a, b, c) ==
    /\ a # b /\ b # c /\ a # c
    /\ same_bucket(a, b) /\ same_bucket(b, c) /\ same_bucket(a, c)
    /\ declared_duplicates(a, b) /\ declared_duplicates(b, c)
    /\ ~declared_duplicates(a, c) /\ ~declared_duplicates(c, a)

\* C21 as claimed: the ends of a chain are never in one group, whatever the
\* order of the three records in the input.
C21_ChainEndsNeverGrouped ==
    Succeeded =>
        \A a, b, c \in 1..Len(citations) : chain(a, b, c) => ~same_group(a, c)

\* C21 amended: two records that the matcher does not pair are in one group
\* only when the group's seed is a third record that the matcher pairs with
\* both; in an input of three records forming a chain the ends are in one
\* group exactly when the middle record comes first.
C21_ChainEndsGroupedOnlyBySeed ==
    Succeeded =>
        /\ \A gi \in 1..Len(result.groups) :
               \A a, c \in Range(result.groups[gi].members) :
                   (a < c /\ ~declared_duplicates(a, c) /\ ~declared_duplicates(c, a)) =>
                       /\ result.groups[gi].members[1] \notin {a, c}
                       /\ declared_duplicates(result.groups[gi].members[1], a)
                       /\ declared_duplicates(result.groups[gi].members[1], c)
        /\ Len(citations) = 3 =>
               \A a, b, c \in 1..3 :
                   chain(a, b, c) => (same_group(a, c) <=> (b < a /\ b < c))

\* A chain whose middle record comes first: the three are one group.
C21_Witness ==
    /\ Succeeded
    /\ Len(citations) = 3
    /\ chain(2, 1, 3)
    /\ same_group(2, 3)

\* The records claimed before the seed of group gi is processed: the members
\* of the groups of two or more whose seed comes earlier.
claimed_before(gi) ==
    UNION { Range(result.groups[hi].members) :
              hi \in { h \in 1..Len(result.groups) :
                         /\ Len(result.groups[h].members) >= 2
                         /\ result.groups[h].members[1] < result.groups[gi].members[1] } }

\* C22: the first member of every group, its seed, is the earliest member in
\* input order, and the members are the seed and exactly the records of its
\* bucket that were unclaimed when the seed was processed and that the
\* matcher declares duplicates of the seed.
C22_SeedAnchoredMembership ==
    Succeeded =>
        \A gi \in 1..Len(result.groups) :
            /\ \A k \in 2..Len(result.groups[gi].members) :
                   result.groups[gi].members[1] < result.groups[gi].members[k]
            /\ Range(result.groups[gi].members) =
                   {result.groups[gi].members[1]} \cup
                   { j \in 1..Len(citations) :
                       /\ j # result.groups[gi].members[1]
                       /\ same_bucket(result.groups[gi].members[1], j)
                       /\ j \notin claimed_before(gi)
                       /\ declared_duplicates(result.groups[gi].members[1], j) }

\* A record that matches a non-seed member of a group, but not its seed, and
\* is left out of the group.
C22_Witness ==
    /\ Succeeded
    /\ Len(citations) = 3
    /\ chain(1, 2, 3)
    /\ \E gi \in 1..Len(result.groups) : result.groups[gi].members = <<1, 2>>
    /\ ~same_group(2, 3)

\* C23 as claimed: `duplicates` is the records matched to the seed, in input
\* order: the members with the seed left out.
C23_DuplicatesAreMatchesOfSeed ==
    Succeeded =>
        \A gi \in 1..Len(result.groups) :
            result.groups[gi].duplicates = Tail(result.groups[gi].members)

\* C23 amended: `duplicates` is the members of the group, seed included, in
\* input order with `unique` left out.
C23_DuplicatesInInputOrder ==
    Succeeded =>
        \A gi \in 1..Len(result.groups) :
            /\ Range(result.groups[gi].duplicates) =
                   Range(result.groups[gi].members) \ {result.groups[gi].unique}
            /\ Len(result.groups[gi].duplicates) = Len(result.groups[gi].members) - 1
            /\ \A k1, k2 \in 1..Len(result.groups[gi].duplicates) :
                   k1 < k2 => result.groups[gi].duplicates[k1] < result.groups[gi].duplicates[k2]

\* A group of three whose `unique` is its second member: the seed is the
\* first of the duplicates.
C23_Witness ==
    /\ Succeeded
    /\ \E gi \in 1..Len(result.groups) :
           /\ Len(result.groups[gi].members) = 3
           /\ result.groups[gi].unique = result.groups[gi].members[2]
           /\ result.groups[gi].duplicates =
                  <<result.groups[gi].members[1], result.groups[gi].members[3]>>

\* C24: two records whose title similarity is at least 0.99, whose years
\* match, whose volume or pages match and whose journal or ISSN match are
\* declared duplicates, whether their DOIs are equal, different, or absent
\* or empty on one or both sides.
C24_HighConfidenceFallback ==
    (/\ pair_in_one_bucket
     /\ pair_year
     /\ (pair_volume \/ pair_pages)
     /\ pair_journal_or_issn
     /\ at_least(pair_similarity, HIGH_TITLE_SIMILARITY))
        => pair_grouped

\* Two records with different non-empty DOIs, grouped with matching pages
\* and no matching volume.
C24_Witness ==
    /\ pair_in_one_bucket
    /\ pair_with_dois /\ ~pair_doi_equal
    /\ at_least(pair_similarity, HIGH_TITLE_SIMILARITY)
    /\ pair_year /\ pair_pages /\ ~pair_volume /\ pair_journal_or_issn
    /\ pair_grouped

pair_issn == match_issns(normalize_issns(citations[1].issn), normalize_issns(citations[2].issn))

\* The normalised journal name and abbreviation of the record at k.
journal_values(k) ==
    { format_journal_name(citations[k].journal), format_journal_name(citations[k].journal_abbr) }

\* One of the four comparisons holds between two present values.
journal_comparison ==
    \E x \in journal_values(1) : \E y \in journal_values(2) : x # None /\ y # None /\ x = y

\* Nothing but the journal fields can make the pair duplicates: the DOIs are
\* equal and non-empty, the titles similar enough, and neither the ISSNs nor
\* the volume nor the pages match.
journal_decides ==
    /\ pair_in_one_bucket
    /\ pair_with_dois /\ pair_doi_equal
    /\ at_least(pair_jaro, DOI_TITLE_SIMILARITY_THRESHOLD)
    /\ ~pair_issn /\ ~pair_volume /\ ~pair_pages

\* C26: the journals of two records match exactly when one of the four
\* comparisons (name with name, abbreviation with abbreviation, name with
\* abbreviation either way) holds between two normalised values that are
\* both present; normalisation keeps an absent field absent and turns the
\* empty string into a present empty string.
C26_JournalMatch ==
    /\ journal_decides => (pair_grouped <=> journal_comparison)
    /\ \A k \in 1..Len(citations) :
         /\ citations[k].journal = None => format_journal_name(citations[k].journal) = None
         /\ citations[k].journal = Some(<<>>)
              => format_journal_name(citations[k].journal) = Some(<<>>)

\* The name of one record matches the abbreviation of the other as two empty
\* strings, the other two fields being absent.
C26_Witness ==
    /\ journal_decides
    /\ citations[1].journal = Some(<<>>) /\ citations[1].journal_abbr = None
    /\ citations[2].journal = None /\ citations[2].journal_abbr = Some(<<>>)
    /\ pair_grouped

\* The ISSN strings of the input.
issn_inputs == UNION { Range(citations[k].issn) : k \in 1..Len(citations) }

issn_digits(s) == SelectSeq(s, is_issn_digit)

\* The two shapes accepted after the stripping.
issn_accepted(stripped) ==
    /\ Len(issn_digits(stripped)) = 8
    /\ \/ Len(stripped) = 9 /\ stripped[5] = "-"
       \/ Len(stripped) = 8

\* Nine characters, eight of them digits or X, and a hyphen in the middle.
issn_canonical(s) == Len(s) = 9 /\ s[5] = "-" /\ Len(issn_digits(s)) = 8

\* Nothing but the ISSNs can make the pair duplicates.
issn_decides ==
    /\ pair_in_one_bucket
    /\ pair_with_dois /\ pair_doi_equal
    /\ at_least(pair_jaro, DOI_TITLE_SIMILARITY_THRESHOLD)
    /\ ~journal_comparison /\ ~pair_volume /\ ~pair_pages

\* C27: an ISSN string is accepted exactly when, after the annotations and
\* every character other than a digit, a hyphen and X are stripped, it is 8
\* digits or X with a hyphen at index 4, or 8 digits or X and nothing else;
\* an accepted result is 9 characters with the hyphen at index 4 and 8
\* digits or X, and normalises to itself; any other shape is absent, and
\* matches no ISSN.
C27_IssnValidator ==
    /\ \A s \in issn_inputs :
         /\ IsSome(format_issn(s)) <=> issn_accepted(clean_issn_of(s))
         /\ IsSome(format_issn(s)) =>
              /\ issn_canonical(Unwrap(format_issn(s)))
              /\ format_issn(Unwrap(format_issn(s))) = format_issn(s)
    /\ issn_decides =>
         (pair_grouped <=>
            \E s \in Range(citations[1].issn) : \E t \in Range(citations[2].issn) :
               IsSome(format_issn(s)) /\ format_issn(s) = format_issn(t))

\* Grouped by the ISSNs alone: 1234-567X on the seed and a longer string,
\* with an annotation or other text around the ISSN, on the other record.
C27_Witness ==
    /\ issn_decides
    /\ citations[1].issn = <<<<"1", "2", "3", "4", "-", "5", "6", "7", "X">>>>
    /\ Len(citations[2].issn) = 1
    /\ Len(citations[2].issn[1]) > 9
    /\ pair_grouped

\* C28: the matcher declares the first record a duplicate of the second
\* exactly when it declares the second a duplicate of the first, and the pair
\* is grouped exactly then, whichever of the two is the seed.
C28_MatcherSymmetric ==
    pair_in_one_bucket =>
        /\ declared_duplicates(1, 2) <=> declared_duplicates(2, 1)
        /\ pair_grouped <=> declared_duplicates(2, 1)

\* A grouped pair whose seed has its journal in the abbreviation, its year in
\* the deprecated field and no pages, the other record having them in the
\* other fields.
C28_Witness ==
    /\ pair_in_one_bucket
    /\ citations[1] = OtherFormOfPair
    /\ citations[2].journal = J1 /\ citations[2].pages = P1
    /\ citations[2].doi = None
    /\ pair_grouped

\* The call has partitioned its input by year.
partitioned ==
    /\ config.group_by_year
    /\ pc # "ready"
    /\ entry_check(citations, sources) = "proceed"

\* The year of a record, or the key of the records without one.
bucket_key(c) ==
    IF c.date # None THEN Unwrap(c.date)
    ELSE IF c.year # None THEN Unwrap(c.year)
    ELSE 0

in_bucket(k, y) == \E q \in 1..Len(year_groups[y]) : year_groups[y][q] = k

\* C25: with year grouping every citation of the input is in exactly one
\* bucket, the one keyed by its year, or by 0 when it has no year; the
\* buckets are disjoint and cover the input, and each lists its citations
\* in input order.
C25_YearPartition ==
    partitioned =>
        /\ \A k \in 1..Len(citations) :
             /\ bucket_key(citations[k]) \in DOMAIN year_groups
             /\ \A y \in DOMAIN year_groups :
                  in_bucket(k, y) <=> y = bucket_key(citations[k])
        /\ \A y \in DOMAIN year_groups :
             /\ year_groups[y] # <<>>
             /\ \A q \in 1..Len(year_groups[y]) : year_groups[y][q] \in 1..Len(citations)
             /\ \A p, q \in 1..Len(year_groups[y]) :
                  p < q => year_groups[y][p] < year_groups[y][q]

\* Two records without a year around a record of 2020: the bucket keyed 0
\* holds the first and the third, in that order.
C25_Witness ==
    /\ partitioned
    /\ Len(citations) = 3
    /\ get_citation_year(citations[1]) = None
    /\ get_citation_year(citations[2]) = Some(2020)
    /\ get_citation_year(citations[3]) = None
    /\ year_groups[0] = <<1, 3>>
    /\ Cardinality(DOMAIN year_groups) = 2

\* year_match as specified: both years absent, or both present and equal.
year_match(c1, c2) ==
    \/ get_citation_year(c1) = None /\ get_citation_year(c2) = None
    \/ /\ get_citation_year(c1) # None /\ get_citation_year(c2) # None
       /\ Unwrap(get_citation_year(c1)) = Unwrap(get_citation_year(c2))

\* C30: with year grouping any two members of one output group have
\* matching years: a record without a year and a record with a year, the
\* year 0 included, are never grouped together.
C30_GroupMembersShareYear ==
    (Succeeded /\ config.group_by_year) =>
        \A k1, k2 \in 1..Len(citations) :
            same_group(k1, k2) => year_match(citations[k1], citations[k2])

\* The record at k names a source of the preference list in its own field.
own_source_preferred(k) ==
    \E q \in 1..Len(config.source_preferences) :
        citations[k].source = Some(config.source_preferences[q])

\* C29: in a call without sources the record kept as unique in every group
\* is the one the selection without preferences picks among the members,
\* whatever the preference list and whatever the records' own source
\* fields.
C29_OwnSourceIgnored ==
    (Succeeded /\ sources = <<>>) =>
        \A gi \in 1..Len(result.groups) :
            result.groups[gi].unique =
                select_unique_citation(citations, result.groups[gi].members)

\* A group whose unique record does not name a preferred source in its own
\* field while another member does.
C29_Witness ==
    /\ Succeeded /\ sources = <<>>
    /\ config.source_preferences # <<>>
    /\ \E gi \in 1..Len(result.groups) :
         /\ ~own_source_preferred(result.groups[gi].unique)
         /\ \E k \in Range(result.groups[gi].duplicates) : own_source_preferred(k)

====
